---- MODULE Spec2Model ----
(***************************************************************************)
(* Model of the battlesnake "strangle" strategy's turn simulator           *)
(* (src/src/strategies/strangle/game.rs): a Game is built from a snapshot  *)
(* and advanced by Game::step under a move map.                            *)
(*                                                                         *)
(* Coordinates are records [x, y]; a body is a sequence of coordinates,    *)
(* head first.  game.food and game.hazards are Vec<Coord> in the source;   *)
(* they are modelled as sets of cells because the snapshots the program    *)
(* receives never repeat a cell and step only filters them (retain), so    *)
(* their order never influences which snake eats or dies.                  *)
(***************************************************************************)
EXTENDS Integers, Sequences, FiniteSets, TLC

(***************************************************************************)
(* Bounds of the model.                                                    *)
(***************************************************************************)
MaxSnakes == 3

MaxLen == 3

BoardWidth == 3

BoardHeight == 3

MaxOccupied == 3

MaxSearchDepth == 3

(***************************************************************************)
(* Program constants.                                                      *)
(***************************************************************************)
ME == 0

MAX_HEALTH == 100

No == -1

(***************************************************************************)
(* fightsnake/types.rs                                                     *)
(***************************************************************************)
DIRECTIONS == <<"Left", "Right", "Up", "Down">>

Direction == {DIRECTIONS[i] : i \in 1..Len(DIRECTIONS)}

Coord(x, y) == [x |-> x, y |-> y]

neighbour(c, direction) ==
    Coord(c.x + (CASE direction = "Right" -> 1
                   [] direction = "Left" -> -1
                   [] OTHER -> 0),
          c.y + (CASE direction = "Up" -> 1
                   [] direction = "Down" -> -1
                   [] OTHER -> 0))

(***************************************************************************)
(* strangle/board.rs                                                       *)
(***************************************************************************)
contains(board, coord) ==
    /\ coord.x >= 0
    /\ coord.y >= 0
    /\ coord.x < board.width
    /\ coord.y < board.height

\* How a call ends: it returns a value, returns an error value, or panics.
Ok(v) == [outcome |-> "Ok", value |-> v]

Err == [outcome |-> "Err"]

Panic == [outcome |-> "panic"]

\* Option::None where the value would be a direction.
None == "None"

\* Option::None where the value would be a BigbrainResult.
Nothing == [some |-> FALSE]

opposite(direction) ==
    CASE direction = "Left"  -> "Right"
      [] direction = "Right" -> "Left"
      [] direction = "Up"    -> "Down"
      [] direction = "Down"  -> "Up"

abs(n) == IF n < 0 THEN -n ELSE n

signum(n) == IF n > 0 THEN 1 ELSE IF n < 0 THEN -1 ELSE 0

\* Direction::between: the dominant axis of the displacement, the vertical
\* one on a tie; None (No) when the two cells are the same.
between(from, to) ==
    LET dx == to.x - from.x
        dy == to.y - from.y
    IN  IF abs(dx) > abs(dy)
        THEN CASE signum(dx) = 1  -> "Right"
               [] signum(dx) = -1 -> "Left"
               [] OTHER           -> None
        ELSE CASE signum(dy) = 1  -> "Up"
               [] signum(dy) = -1 -> "Down"
               [] OTHER           -> None

(***************************************************************************)
(* strangle/snake.rs.  body[1] of the source is the second segment; the    *)
(* index panics when the body has only one.                                *)
(***************************************************************************)
facing(snake) ==
    IF Len(snake.body) < 2 THEN "panic"
    ELSE between(snake.body[2], snake.body[1])

\* Mutant: the neck is not filtered out.
possible_directions_KeepsNeck(snake, board) ==
    IF facing(snake) = "panic" THEN Panic
    ELSE Ok(SelectSeq(DIRECTIONS,
                LAMBDA d : contains(board, neighbour(snake.body[1], d))))

possible_directions(snake, board) ==
    IF facing(snake) = "panic" THEN Panic
    ELSE Ok(SelectSeq(DIRECTIONS,
                LAMBDA d :
                    /\ ~(/\ facing(snake) # None
                         /\ opposite(facing(snake)) = d)
                    /\ contains(board, neighbour(snake.body[1], d))))

(***************************************************************************)
(* strangle/game.rs: construction                                          *)
(***************************************************************************)
new(snakes, food, hazards, board) ==
    [snakes      |-> snakes,
     prev_snakes |-> snakes,
     food        |-> food,
     prev_food   |-> food,
     hazards     |-> hazards,
     board       |-> board,
     multisnake  |-> Len(snakes) > 1]

(***************************************************************************)
(* strangle/game.rs: TryFrom<GameState>.  A snapshot names its agents by   *)
(* strings; the game names them by their position in the list once self    *)
(* has been swapped to the front.                                          *)
(***************************************************************************)
\* Iterator::position: the 0-based place of the first agent with that id.
position(snakes, id) ==
    IF \E i \in 1..Len(snakes) : snakes[i].id = id
    THEN (CHOOSE i \in 1..Len(snakes) :
             /\ snakes[i].id = id
             /\ \A j \in 1..(i - 1) : snakes[j].id # id) - 1
    ELSE No

\* slice::swap, on 0-based places.
swap(snakes, a, b) ==
    [i \in 1..Len(snakes) |->
        IF i = a + 1 THEN snakes[b + 1]
        ELSE IF i = b + 1 THEN snakes[a + 1]
        ELSE snakes[i]]

\* Mutant: self is left where the snapshot lists it.
try_from_NoSwap(state) ==
    LET you_idx == position(state.board.snakes, state.you.id)
    IN  IF you_idx = No THEN Err
        ELSE Ok(new([i \in 1..Len(state.board.snakes) |->
                        [id     |-> i - 1,
                         body   |-> state.board.snakes[i].body,
                         health |-> state.board.snakes[i].health]],
                    state.board.food,
                    state.board.hazards,
                    [width  |-> state.board.width,
                     height |-> state.board.height]))

try_from(state) ==
    LET you_idx == position(state.board.snakes, state.you.id)
        snakes  == swap(state.board.snakes, ME, you_idx)
    IN  IF you_idx = No THEN Err
        ELSE Ok(new([i \in 1..Len(snakes) |->
                        [id     |-> i - 1,
                         body   |-> snakes[i].body,
                         health |-> snakes[i].health]],
                    state.board.food,
                    state.board.hazards,
                    [width  |-> state.board.width,
                     height |-> state.board.height]))

index(board, c) == c.x + c.y * board.width

freespace_index(board, coord) ==
    IF contains(board, coord) THEN index(board, coord) ELSE No

(***************************************************************************)
(* strangle/game.rs: floodfill.  A breadth-first walk from the seed: a     *)
(* cell is marked visited when it is taken off the queue, and its free,    *)
(* not yet visited neighbours are put on the queue in the order of         *)
(* Direction::iter.  freespace is a function from cell index to BOOLEAN.   *)
(***************************************************************************)
\* Mutant: every cell of the board counts as free.
is_space_free_AnyCell(board, freespace, coord) ==
    freespace_index(board, coord) # No

is_space_free(board, freespace, coord) ==
    IF freespace_index(board, coord) = No THEN FALSE
    ELSE freespace[freespace_index(board, coord)]

\* The while loop: visited is the set of indices whose flag is set, pops the
\* number of cells taken off the queue so far.
RECURSIVE FloodLoop(_, _, _, _, _)
FloodLoop(board, freespace, queue, visited, pops) ==
    IF queue = <<>> THEN [visited |-> visited, pops |-> pops]
    ELSE LET c    == Head(queue)
             seen == visited \cup {index(board, c)}
             push == SelectSeq(
                         [k \in 1..Len(DIRECTIONS) |->
                             neighbour(c, DIRECTIONS[k])],
                         LAMBDA n :
                             /\ is_space_free(board, freespace, n)
                             /\ index(board, n) \notin seen)
         IN  FloodLoop(board, freespace, Tail(queue) \o push, seen, pops + 1)

\* visited[index(seed)] fails for a seed whose index is negative (try_from
\* gives an error) or past the end of the vector (the index panics).
floodfill(board, freespace, seed) ==
    IF index(board, seed) < 0 THEN Err
    ELSE IF index(board, seed) >= board.width * board.height THEN Panic
    ELSE Ok(Cardinality(
                FloodLoop(board, freespace, <<seed>>, {}, 0).visited))

(***************************************************************************)
(* step, phase 1: every snake drops its tail, then pushes the neighbour of *)
(* what is then the front of its body, and loses one health.               *)
(***************************************************************************)
PopBack(body) == SubSeq(body, 1, Len(body) - 1)

\* Mutant: the new head is pushed without the tail being dropped.
MoveSnake_KeepsTail(snake, direction) ==
    [id     |-> snake.id,
     body   |-> <<neighbour(snake.body[1], direction)>> \o snake.body,
     health |-> snake.health - 1]

MoveSnake(snake, direction) ==
    LET popped == PopBack(snake.body)
    IN  [id     |-> snake.id,
         body   |-> <<neighbour(popped[1], direction)>> \o popped,
         health |-> snake.health - 1]

\* The position in the list of the first snake at which the move loop stops
\* early (no move for it, or no front left after the tail is dropped), or No.
FirstFailure(snakes, moves) ==
    LET bad == {i \in 1..Len(snakes) :
                   \/ snakes[i].id \notin DOMAIN moves
                   \/ Len(PopBack(snakes[i].body)) = 0}
    IN  IF bad = {} THEN No
        ELSE CHOOSE i \in bad : \A j \in bad : i <= j

\* "Ok": step returns a game; "Err": step returns an error value;
\* "panic": the assertion on the number of moves or the lookup of a move panics.
StepOutcome(g, moves) ==
    IF Cardinality(DOMAIN moves) # Len(g.snakes) THEN "panic"
    ELSE LET f == FirstFailure(g.snakes, moves)
         IN  IF f = No THEN "Ok"
             ELSE IF g.snakes[f].id \notin DOMAIN moves THEN "panic"
             ELSE "Err"

MovePhase(snakes, moves) ==
    [i \in 1..Len(snakes) |-> MoveSnake(snakes[i], moves[snakes[i].id])]

\* Mutant: the hazards are left out of the occupancy.
calculate_free_space_NoHazards(snakes, hazards, board) ==
    [ix \in 0..(board.width * board.height - 1) |->
        \A i \in 1..Len(snakes) : \A k \in 2..Len(snakes[i].body) :
            freespace_index(board, snakes[i].body[k]) # ix]

(***************************************************************************)
(* calculate_free_space: one flag per cell, false where a non-head segment *)
(* of any snake or a hazard lies.                                          *)
(***************************************************************************)
calculate_free_space(snakes, hazards, board) ==
    [ix \in 0..(board.width * board.height - 1) |->
        /\ \A i \in 1..Len(snakes) : \A k \in 2..Len(snakes[i].body) :
              freespace_index(board, snakes[i].body[k]) # ix
        /\ \A hazard \in hazards : freespace_index(board, hazard) # ix]

(***************************************************************************)
(* step, phase 2: individual elimination (the first retain).               *)
(***************************************************************************)
Eliminated(snake, freespace, board) ==
    \/ snake.health <= 0
    \/ LET ix == freespace_index(board, snake.body[1])
       IN  IF ix # No THEN ~freespace[ix] ELSE TRUE

\* Mutant: the retain does not keep the order of the list; the survivors
\* other than self come first.
Retained_SelfLast(snakes, freespace, board) ==
    SelectSeq(snakes, LAMBDA snake :
        ~Eliminated(snake, freespace, board) /\ snake.id # ME)
    \o SelectSeq(snakes, LAMBDA snake :
        ~Eliminated(snake, freespace, board) /\ snake.id = ME)

Retained(snakes, freespace, board) ==
    SelectSeq(snakes, LAMBDA snake : ~Eliminated(snake, freespace, board))

(***************************************************************************)
(* step, phase 2a: head-to-head collisions between a (earlier in the list) *)
(* and b (later in the list).                                              *)
(***************************************************************************)
\* Mutant: the earlier snake of an equal-length pair dies whoever it is.
KillsA_AnyTie(a, b) ==
    /\ a.body[1] = b.body[1]
    /\ Len(b.body) >= Len(a.body)

KillsA(a, b) ==
    /\ a.body[1] = b.body[1]
    /\ IF Len(a.body) = Len(b.body)
       THEN a.id = ME
       ELSE Len(b.body) >= Len(a.body)

\* Mutant: the later snake of an equal-length pair dies too.
KillsB_AnyTie(a, b) ==
    /\ a.body[1] = b.body[1]
    /\ Len(a.body) >= Len(b.body)

KillsB(a, b) ==
    /\ a.body[1] = b.body[1]
    /\ IF Len(a.body) = Len(b.body)
       THEN FALSE
       ELSE Len(a.body) >= Len(b.body)

\* Mutant: only the earlier snake of a pair is ever marked.
keep_EarlierOnly(snakes) ==
    [i \in 1..Len(snakes) |->
        \A bi \in (i + 1)..Len(snakes) : ~KillsA(snakes[i], snakes[bi])]

keep(snakes) ==
    [i \in 1..Len(snakes) |->
        /\ \A bi \in (i + 1)..Len(snakes) : ~KillsA(snakes[i], snakes[bi])
        /\ \A ai \in 1..(i - 1) : ~KillsB(snakes[ai], snakes[i])]

RECURSIVE KeepOnly(_, _)
KeepOnly(snakes, flags) ==
    IF snakes = <<>> THEN <<>>
    ELSE (IF Head(flags) THEN <<Head(snakes)>> ELSE <<>>)
             \o KeepOnly(Tail(snakes), Tail(flags))

Ids(snakes) == {snakes[i].id : i \in 1..Len(snakes)}

\* Mutant: the head-to-head loop records no classification.
DeathKinds_FirstRetainOnly(moved, retained, kept) ==
    [id \in Ids(moved) \ Ids(retained) |-> "Normal"]

\* The death_kind_map: Normal from the first retain, Honourable from the
\* head-to-head loop (whose snakes all passed the first retain).
DeathKinds(moved, retained, kept) ==
    [id \in Ids(moved) \ Ids(kept) |->
        IF id \in Ids(retained) THEN "Honourable" ELSE "Normal"]

(***************************************************************************)
(* step, phase 3: food.retain: a food cell goes to the first snake in the  *)
(* list whose head is on it.                                               *)
(***************************************************************************)
Eats(snakes, i, food) ==
    /\ snakes[i].body[1] \in food
    /\ \A j \in 1..(i - 1) : snakes[j].body[1] # snakes[i].body[1]

Feed(snake) ==
    [id     |-> snake.id,
     body   |-> Append(snake.body, snake.body[Len(snake.body)]),
     health |-> MAX_HEALTH]

\* Mutant: the fed snake is pushed onto the list instead of updated in place.
EatPhase_PushesFed(snakes, food) ==
    LET eaters == {i \in 1..Len(snakes) : Eats(snakes, i, food)}
    IN  IF eaters = {} THEN snakes
        ELSE snakes \o <<Feed(snakes[CHOOSE i \in eaters : TRUE])>>

EatPhase(snakes, food) ==
    [i \in 1..Len(snakes) |->
        IF Eats(snakes, i, food) THEN Feed(snakes[i]) ELSE snakes[i]]

\* Mutant: the food under a fed snake is not removed.
RemainingFood_KeepsAll(snakes, food) == food

RemainingFood(snakes, food) ==
    {f \in food : \A i \in 1..Len(snakes) : snakes[i].body[1] # f}

\* Mutant: the multisnake flag is recomputed from the survivors.
step_RecomputesMultisnake(g, moves) ==
    LET moved     == MovePhase(g.snakes, moves)
        freespace == calculate_free_space(moved, g.hazards, g.board)
        retained  == Retained(moved, freespace, g.board)
        kept      == KeepOnly(retained, keep(retained))
    IN  [game |-> [snakes      |-> EatPhase(kept, g.food),
                   prev_snakes |-> moved,
                   food        |-> RemainingFood(kept, g.food),
                   prev_food   |-> g.food,
                   hazards     |-> g.hazards,
                   board       |-> g.board,
                   multisnake  |-> Len(kept) > 1],
         retained       |-> retained,
         freespace      |-> freespace,
         death_kind_map |-> DeathKinds(moved, retained, kept)]

(***************************************************************************)
(* Game::step for a move map on which it returns Ok.                       *)
(***************************************************************************)
step(g, moves) ==
    LET moved     == MovePhase(g.snakes, moves)
        freespace == calculate_free_space(moved, g.hazards, g.board)
        retained  == Retained(moved, freespace, g.board)
        kept      == KeepOnly(retained, keep(retained))
    IN  [game |-> [snakes      |-> EatPhase(kept, g.food),
                   prev_snakes |-> moved,
                   food        |-> RemainingFood(kept, g.food),
                   prev_food   |-> g.food,
                   hazards     |-> g.hazards,
                   board       |-> g.board,
                   multisnake  |-> g.multisnake],
         retained       |-> retained,
         freespace      |-> freespace,
         death_kind_map |-> DeathKinds(moved, retained, kept)]

(***************************************************************************)
(* strangle/score_factors.rs: the factors of a score and the scalar        *)
(* derived from them.  Game::score builds the factors from the distance to *)
(* the centre of the board and the flood-fill count; the weights of these  *)
(* two, and the base value of a self-sacrifice death, are not in the       *)
(* source at hand and are set as the design describes them.                *)
(***************************************************************************)
DEPTH_WEIGHT == 100

HEALTH_WEIGHT == 500

LENGTH_WEIGHT == 1000

REMAINING_OPPONENTS_WEIGHT == -10000

DEAD_SCORE == -100000000

WIN_SCORE == 10000000

HONOURABLE_DEAD_SCORE == -50000000

CENTER_DIST_WEIGHT == -250

AVAILABLE_SQUARES_WEIGHT == 250

ScoreFactors_alive(snake_id, health, length, center_dist, remaining_opponents, available_squares, multisnake) ==
    [snake_id            |-> snake_id,
     dead                |-> FALSE,
     death_kind          |-> "Normal",
     health              |-> health,
     length              |-> length,
     center_dist         |-> center_dist,
     remaining_opponents |-> remaining_opponents,
     available_squares   |-> available_squares,
     multisnake          |-> multisnake]

ScoreFactors_dead(snake_id, death_kind, multisnake) ==
    [snake_id            |-> snake_id,
     dead                |-> TRUE,
     death_kind          |-> death_kind,
     health              |-> 0,
     length              |-> 0,
     center_dist         |-> 0,
     remaining_opponents |-> 0,
     available_squares   |-> 0,
     multisnake          |-> multisnake]

\* The base value of a death, by its classification.
dead_score(death_kind) ==
    IF death_kind = "Honourable" THEN HONOURABLE_DEAD_SCORE ELSE DEAD_SCORE

\* The terms of a living score that come from where the snake is.
positional_score(factors) ==
    factors.center_dist * CENTER_DIST_WEIGHT
        + factors.available_squares * AVAILABLE_SQUARES_WEIGHT

\* Mutant: a death is valued like a win, lower the later it comes.
calculate_DeadSoonerIsBetter(factors, depth) ==
    IF factors.dead
    THEN dead_score(factors.death_kind) - depth * DEPTH_WEIGHT
    ELSE IF factors.remaining_opponents = 0 /\ factors.multisnake
    THEN WIN_SCORE - depth * DEPTH_WEIGHT
    ELSE factors.health * HEALTH_WEIGHT
             + factors.length * LENGTH_WEIGHT
             + positional_score(factors)
             + factors.remaining_opponents * REMAINING_OPPONENTS_WEIGHT
             + depth * DEPTH_WEIGHT

\* Mutant: the health of a living snake does not count.
calculate_IgnoresHealth(factors, depth) ==
    IF factors.dead
    THEN dead_score(factors.death_kind) + depth * DEPTH_WEIGHT
    ELSE IF factors.remaining_opponents = 0 /\ factors.multisnake
    THEN WIN_SCORE - depth * DEPTH_WEIGHT
    ELSE factors.length * LENGTH_WEIGHT
             + positional_score(factors)
             + factors.remaining_opponents * REMAINING_OPPONENTS_WEIGHT
             + depth * DEPTH_WEIGHT

\* Mutant: the multisnake flag is not looked at.
calculate_SoloWins(factors, depth) ==
    IF factors.dead
    THEN dead_score(factors.death_kind) + depth * DEPTH_WEIGHT
    ELSE IF factors.remaining_opponents = 0
    THEN WIN_SCORE - depth * DEPTH_WEIGHT
    ELSE factors.health * HEALTH_WEIGHT
             + factors.length * LENGTH_WEIGHT
             + positional_score(factors)
             + factors.remaining_opponents * REMAINING_OPPONENTS_WEIGHT
             + depth * DEPTH_WEIGHT

calculate(factors, depth) ==
    IF factors.dead
    THEN dead_score(factors.death_kind) + depth * DEPTH_WEIGHT
    ELSE IF factors.remaining_opponents = 0 /\ factors.multisnake
    THEN WIN_SCORE - depth * DEPTH_WEIGHT
    ELSE factors.health * HEALTH_WEIGHT
             + factors.length * LENGTH_WEIGHT
             + positional_score(factors)
             + factors.remaining_opponents * REMAINING_OPPONENTS_WEIGHT
             + depth * DEPTH_WEIGHT

(***************************************************************************)
(* fightsnake/utils.rs and strangle/game.rs: Game::score.  Two snakes are  *)
(* equal when their ids are (snake.rs), so `contains` looks for the id.    *)
(***************************************************************************)
manhattan_distance(a, b) == abs(a.x - b.x) + abs(a.y - b.y)

score(g, snake, freespace, death_kind) ==
    IF snake.id \notin Ids(g.snakes)
    THEN Ok(ScoreFactors_dead(snake.id, death_kind, g.multisnake))
    ELSE LET available_squares ==
                 IF Len(g.snakes) <= 4
                 THEN floodfill(g.board, freespace, snake.body[1])
                 ELSE Ok(0)
             center_dist ==
                 manhattan_distance(snake.body[1],
                                    Coord(g.board.width \div 2,
                                          g.board.height \div 2))
         IN  IF available_squares.outcome # "Ok" THEN available_squares
             ELSE Ok(ScoreFactors_alive(snake.id, snake.health,
                                        Len(snake.body), center_dist,
                                        Len(g.snakes) - 1,
                                        available_squares.value,
                                        g.multisnake))

(***************************************************************************)
(* Inputs: the snapshots a game is built from, and the move maps.          *)
(***************************************************************************)
Board == [width |-> BoardWidth, height |-> BoardHeight]

\* Where the snake of each slot lies in a snapshot, head first; a body longer
\* than its lane repeats the lane's last cell (a tail grown by eating).
Lanes ==
    << <<Coord(0, 1), Coord(0, 0)>>,
       <<Coord(2, 1), Coord(2, 2)>>,
       <<Coord(1, 0), Coord(2, 0)>>,
       <<Coord(1, 2), Coord(0, 2)>>,
       <<Coord(1, 1), Coord(1, 1)>> >>

LaneBody(slot, len) ==
    [k \in 1..len |->
        Lanes[slot + 1][IF k <= Len(Lanes[slot + 1]) THEN k
                        ELSE Len(Lanes[slot + 1])]]

\* A snapshot holds no food or food on both of these cells: the one the three
\* lanes meet at, and one only slot 0 reaches in a turn.
FoodCells == {Coord(1, 1), Coord(0, 2)}

SnapshotFoods == {{}, FoodCells}

HazardCells == {Coord(0, 2)}

Slots == 0..(MaxSnakes - 1)

\* The body length of every snake of a snapshot.
SnapshotLengths == UNION {[1..n -> 1..MaxLen] : n \in 1..MaxSnakes}

\* A snapshot's snakes: at most one of them, `hungry`, is down to its last
\* point of health; the others are at full health.
BuildSnakes(lens, hungry) ==
    [i \in 1..Len(lens) |->
        [id     |-> i - 1,
         body   |-> LaneBody(i - 1, lens[i]),
         health |-> IF i - 1 = hungry THEN 1 ELSE MAX_HEALTH]]

(***************************************************************************)
(* strangle/mod.rs: the number of turns the search looks ahead, by the     *)
(* number of snakes of the game it is given (debug build).                 *)
(***************************************************************************)
solo_depth == 3

duel_depth == 2

triple_depth == 2

quadruple_depth == 1

too_many_depth == 1

MaxDepth(g) ==
    CASE Len(g.snakes) = 1 -> solo_depth
      [] Len(g.snakes) = 2 -> duel_depth
      [] Len(g.snakes) = 3 -> triple_depth
      [] Len(g.snakes) = 4 -> quadruple_depth
      [] OTHER -> too_many_depth

(***************************************************************************)
(* strangle/brain.rs: the search stops stepping a game when this holds.    *)
(***************************************************************************)
\* Mutant: a lone survivor ends the search in a solo game too.
should_exit_AnyLoneSurvivor(g, depth, maxDepth) ==
    \/ ~(\E i \in 1..Len(g.snakes) : g.snakes[i].id = ME)
    \/ Len(g.snakes) <= 1
    \/ depth = maxDepth

\* Mutant: the depth reached does not stop the search.
should_exit_NoHorizon(g, depth, maxDepth) ==
    \/ ~(\E i \in 1..Len(g.snakes) : g.snakes[i].id = ME)
    \/ (g.multisnake /\ Len(g.snakes) <= 1)

should_exit(g, depth, maxDepth) ==
    \/ ~(\E i \in 1..Len(g.snakes) : g.snakes[i].id = ME)
    \/ (g.multisnake /\ Len(g.snakes) <= 1)
    \/ depth = maxDepth

\* The move maps step is called with: every complete map for the snakes of g,
\* and for every other key set one map (its directions are never looked at
\* past the first missing key).
MoveMaps(g) ==
    [Ids(g.snakes) -> Direction]
        \cup {[s \in D |-> "Up"] : D \in (SUBSET Slots) \ {Ids(g.snakes)}}

(***************************************************************************)
(* State: the current game; the last call of step (its input game, its     *)
(* move map, how it ended, the snakes left by the first retain, the        *)
(* death_kind_map it returned); the number of turns simulated so far and   *)
(* the depth the search was given.                                         *)
(***************************************************************************)
VARIABLES game, input, moves, outcome, retained, death_kind_map, turn,
          max_depth

vars == <<game, input, moves, outcome, retained, death_kind_map, turn,
          max_depth>>

NoMoves == [s \in {} |-> "Up"]

(***************************************************************************)
(* State of a single call of one of the program's functions on its own:    *)
(* the function and its arguments, and what it returned.                   *)
(***************************************************************************)
VARIABLES call, result

call_vars == <<call, result>>

NoCall == [fn |-> "none"]

CallIdle ==
    /\ call = NoCall
    /\ result = [outcome |-> "none"]

(***************************************************************************)
(* State of a search for a direction: the game it is asked about (root);   *)
(* the calls of bigbrain in progress (stack) and the value the last        *)
(* finished call handed back (ret); the memo cache; whether the clock has  *)
(* passed the deadline; the driver's requested depth, its best-known       *)
(* result and its answer.  `cut` tells that a call of the attempt in       *)
(* progress found the deadline passed, `attempts` lists the attempts made  *)
(* so far with what they returned, and `calls` counts the calls of         *)
(* bigbrain entered since the search began.  `kept` is the cache a         *)
(* benchmark of the search sets aside while it searches with an empty one. *)
(***************************************************************************)
VARIABLES root, stack, ret, known_scores, expired, requested, best, answer,
          cut, attempts, calls, kept

search_vars == <<root, stack, ret, known_scores, expired, requested, best,
                 answer, cut, attempts, calls, kept>>

NoCache == [h \in {} |-> h]

SearchIdle ==
    /\ stack = <<>>
    /\ ret = [outcome |-> "none"]
    /\ known_scores = NoCache
    /\ expired = FALSE
    /\ requested = 0
    /\ best = Nothing
    /\ answer = [outcome |-> "none"]
    /\ cut = FALSE
    /\ attempts = <<>>
    /\ calls = 0
    /\ kept = NoCache

Init ==
    /\ CallIdle
    /\ SearchIdle
    /\ root = No
    /\ \E lens \in SnapshotLengths, hungry \in Slots \cup {No},
          food \in SnapshotFoods, hazards \in SUBSET HazardCells :
          /\ hungry < Len(lens)
          /\ game = new(BuildSnakes(lens, hungry), food, hazards, Board)
    /\ max_depth = MaxDepth(game)
    /\ input = game
    /\ moves = NoMoves
    /\ outcome = "none"
    /\ retained = <<>>
    /\ death_kind_map = NoMoves
    /\ turn = 0

\* One call of Game::step on the current game with some move map.  A call that
\* panics or returns an error leaves the caller's game as it was.
Step ==
    /\ outcome \in {"none", "Ok"}
    /\ turn > 0 => ~should_exit(game, turn, max_depth)
    /\ \E m \in MoveMaps(game) :
          /\ moves' = m
          /\ input' = game
          /\ outcome' = StepOutcome(game, m)
          /\ IF outcome' = "Ok"
             THEN /\ game' = step(game, m).game
                  /\ retained' = step(game, m).retained
                  /\ death_kind_map' = step(game, m).death_kind_map
             ELSE /\ game' = game
                  /\ retained' = <<>>
                  /\ death_kind_map' = NoMoves
    /\ turn' = turn + 1
    /\ max_depth' = max_depth
    /\ UNCHANGED <<call_vars, search_vars>>

Next == Step

Spec == Init /\ [][Next]_vars

(***************************************************************************)
(* The functions of the program called on their own: a behaviour starts    *)
(* with the function and its arguments, drawn from bounded sets, and makes *)
(* the call.  No game is being simulated meanwhile.                        *)
(***************************************************************************)
SimIdle ==
    /\ game = No
    /\ input = No
    /\ moves = NoMoves
    /\ outcome = "none"
    /\ retained = <<>>
    /\ death_kind_map = NoMoves
    /\ turn = 0
    /\ max_depth = 0

Pending(fn) ==
    /\ call.fn = fn
    /\ result.outcome = "none"

Cells == {Coord(x, y) : x \in 0..(BoardWidth - 1), y \in 0..(BoardHeight - 1)}

Adjacent(a, b) == \E d \in Direction : neighbour(a, d) = b

\* The bodies a snapshot or a simulated game can hold: consecutive segments
\* are neighbours, or lie on the same cell (a tail grown by eating, or the
\* stacked body of a game's first turns).
Bodies ==
    {body \in UNION {[1..n -> Cells] : n \in 1..MaxLen} :
        \A k \in 1..(Len(body) - 1) :
            body[k] = body[k + 1] \/ Adjacent(body[k], body[k + 1])}

PossibleDirectionsCalls ==
    {[fn    |-> "possible_directions",
      snake |-> [id |-> ME, body |-> body, health |-> MAX_HEALTH]] :
        body \in Bodies}

CallPossibleDirections ==
    /\ Pending("possible_directions")
    /\ result' = possible_directions(call.snake, Board)
    /\ UNCHANGED <<vars, call, search_vars>>

\* The identifiers of a snapshot's agents, by their place in its list, and
\* an identifier none of them carries.
Names == [i \in 1..MaxSnakes |-> <<"snake", i>>]

Stranger == <<"snake", 0>>

\* A snapshot: its agents lie as BuildSnakes lays them; `you` is the place in
\* the list of the agent the snapshot calls self, or No when it names none.
GameState(lens, hungry, you) ==
    LET snakes == BuildSnakes(lens, hungry)
    IN  [board |-> [width   |-> BoardWidth,
                    height  |-> BoardHeight,
                    food    |-> FoodCells,
                    hazards |-> HazardCells,
                    snakes  |-> [i \in 1..Len(lens) |->
                                    [id     |-> Names[i],
                                     body   |-> snakes[i].body,
                                     health |-> snakes[i].health]]],
         you   |-> [id |-> IF you = No THEN Stranger ELSE Names[you]]]

TryFromCalls ==
    {[fn |-> "try_from", state |-> GameState(a[1], a[2], a[3])] :
        a \in {b \in SnapshotLengths \X (Slots \cup {No})
                       \X ((1..MaxSnakes) \cup {No}) :
                  b[2] < Len(b[1]) /\ b[3] <= Len(b[1])}}

CallTryFrom ==
    /\ Pending("try_from")
    /\ result' = try_from(call.state)
    /\ UNCHANGED <<vars, call, search_vars>>

\* The occupancies flood-fill is asked about: at most MaxOccupied cells of
\* the board are not free.
Freespaces ==
    {[ix \in 0..(BoardWidth * BoardHeight - 1) |-> ix \notin occupied] :
        occupied \in {o \in SUBSET (0..(BoardWidth * BoardHeight - 1)) :
                         Cardinality(o) <= MaxOccupied}}

FloodfillCalls ==
    {[fn |-> "floodfill", freespace |-> freespace, seed |-> seed] :
        freespace \in Freespaces, seed \in Cells}

CallFloodfill ==
    /\ Pending("floodfill")
    /\ result' = floodfill(Board, call.freespace, call.seed)
    /\ UNCHANGED <<vars, call, search_vars>>

\* The games that are scored: those one turn after a snapshot in which every
\* snake has two segments or MaxLen, for every complete move map.
ScoreLengths ==
    {lens \in SnapshotLengths : \A i \in 1..Len(lens) : lens[i] \in {2, MaxLen}}

ScoreCalls ==
    UNION {UNION {{[fn |-> "score", built |-> built, moves |-> m, id |-> id] :
                      m \in [Ids(built.snakes) -> Direction],
                      id \in Ids(built.snakes)} :
                  built \in {new(BuildSnakes(lens, No), food, {}, Board) :
                                food \in SnapshotFoods}} :
           lens \in ScoreLengths}

SnakeOf(snakes, id) ==
    snakes[CHOOSE i \in 1..Len(snakes) : snakes[i].id = id]

\* What the search does with a game it has stepped (brain.rs): Game::score
\* for one snake of it, and calculate on the factors; here for every depth.
Scoring(stepped, id) ==
    LET after   == stepped.game
        snake   == IF id \in Ids(after.snakes)
                   THEN SnakeOf(after.snakes, id)
                   ELSE SnakeOf(after.prev_snakes, id)
        kind    == IF id \in DOMAIN stepped.death_kind_map
                   THEN stepped.death_kind_map[id]
                   ELSE "Normal"
        factors == score(after, snake, stepped.freespace, kind)
    IN  IF factors.outcome # "Ok" THEN factors
        ELSE Ok([game    |-> after,
                 factors |-> factors.value,
                 scores  |-> [d \in 0..MaxSearchDepth |->
                                 calculate(factors.value, d)]])

CallScore ==
    /\ Pending("score")
    /\ result' = Scoring(step(call.built, call.moves), call.id)
    /\ UNCHANGED <<vars, call, search_vars>>

\* The farthest a head can be from the cell Game::score measures from.
MaxCenterDist == (BoardWidth \div 2) + (BoardHeight \div 2)

\* The factors a score is calculated from: for a living snake the least and
\* the greatest value of every factor on this board, with every number of
\* opponents left; for a dead one both classifications.
FeasibleFactors ==
    {ScoreFactors_alive(0, health, length, center_dist, opponents, squares,
                        multisnake) :
        health \in {1, MAX_HEALTH},
        length \in {1, BoardWidth * BoardHeight},
        center_dist \in {0, MaxCenterDist},
        opponents \in 0..(MaxSnakes - 1),
        squares \in {0, BoardWidth * BoardHeight},
        multisnake \in BOOLEAN}
    \cup {ScoreFactors_dead(0, kind, multisnake) :
              kind \in {"Normal", "Honourable"}, multisnake \in BOOLEAN}

CalculateCalls ==
    {[fn |-> "calculate", factors |-> factors, depth |-> depth] :
        factors \in {f \in FeasibleFactors :
                        f.multisnake \/ f.remaining_opponents = 0},
        depth \in 0..MaxSearchDepth}

CallCalculate ==
    /\ Pending("calculate")
    /\ result' = Ok(calculate(call.factors, call.depth))
    /\ UNCHANGED <<vars, call, search_vars>>

CallInit ==
    /\ SimIdle
    /\ SearchIdle
    /\ root = No
    /\ call \in PossibleDirectionsCalls \cup TryFromCalls
                   \cup FloodfillCalls \cup ScoreCalls
                   \cup CalculateCalls
    /\ result = [outcome |-> "none"]

CallNext ==
    \/ CallPossibleDirections
    \/ CallTryFrom
    \/ CallFloodfill
    \/ CallScore
    \/ CallCalculate

all_vars == <<vars, call_vars, search_vars>>

CallSpec == CallInit /\ [][CallNext]_all_vars

(***************************************************************************)
(* strangle/brain.rs: bigbrain, the recursive search.  A call is a frame   *)
(* on `stack`; the value a finished call hands to its caller is `ret`.     *)
(* A BigbrainResult is a record; Ok(Nothing) is the Ok(None) of a search   *)
(* that ran out of time.                                                   *)
(***************************************************************************)
inner(scores, depth) ==
    [some |-> TRUE, scores |-> scores, direction |-> None, depth |-> depth]

\* Mutant: a call counts itself into the depth of the result it hands up.
outer_CountsLevel(scores, direction, depth) ==
    [some |-> TRUE, scores |-> scores, direction |-> direction,
     depth |-> depth + 1]

outer(scores, direction, depth) ==
    [some |-> TRUE, scores |-> scores, direction |-> direction,
     depth |-> depth]

\* Mutant: the hash is taken of the snakes still in the game only, not of
\* the snakes as they moved.
calculate_hash_Survivors(g) == [g EXCEPT !.prev_snakes = g.snakes]

\* The content that Game's derived Hash feeds the hasher is the whole game;
\* the 64-bit hash is taken to tell the games of a search apart.
calculate_hash(g) == g

\* The frame of a call bigbrain(game, snake_index, depth, moves, ...), at its
\* entry.  `snake` is the reference taken into the game the call was given
\* (brain.rs:102); the other locals are set once the call is past its entry.
\* `tried` keeps, for every direction the loop is done with, the result it
\* compared (what the trace of brain.rs:219-230 prints).
Frame(g, snake_index, depth, m) ==
    [pc               |-> "enter",
     game             |-> g,
     snake            |-> g.snakes[snake_index + 1],
     snake_index      |-> snake_index,
     depth            |-> depth,
     moves            |-> m,
     directions       |-> <<>>,
     direction        |-> None,
     tried            |-> <<>>,
     has_best_result  |-> FALSE,
     best_result      |-> Nothing,
     best_direction   |-> "Up",
     next_snake_index |-> 0,
     next_depth       |-> 0]

\* moves.retain: the moves of the snakes still in the game.
retain_alive(m, g) == [id \in DOMAIN m \cap Ids(g.snakes) |-> m[id]]

\* The scores of a game the search stops at (brain.rs:136-157): Game::score
\* for the snakes in it, a dead score with its classification for the snakes
\* the last step eliminated.
terminal_scores(stepped) ==
    LET g     == stepped.game
        live  == [id \in Ids(g.snakes) |->
                     score(g, SnakeOf(g.snakes, id), stepped.freespace,
                           "Normal")]
        gone  == Ids(g.prev_snakes) \ Ids(g.snakes)
    IN  IF \E id \in Ids(g.snakes) : live[id].outcome # "Ok" THEN Err
        ELSE IF \E id \in gone : id \notin DOMAIN stepped.death_kind_map
        THEN Err
        ELSE Ok([id \in Ids(g.snakes) \cup gone |->
                    IF id \in Ids(g.snakes) THEN live[id].value
                    ELSE ScoreFactors_dead(id, stepped.death_kind_map[id],
                                           g.multisnake)])

\* known_scores.entry(hash).or_insert(scores): the cache after the call.
or_insert(cache, hash, scores) ==
    IF hash \in DOMAIN cache THEN cache
    ELSE [h \in DOMAIN cache \cup {hash} |->
             IF h = hash THEN scores ELSE cache[h]]

\* The locals of a call that goes on to its direction loop (brain.rs:165-191)
\* with game g and an empty or inherited move map m.
enter_loop(f, g, m) ==
    [f EXCEPT !.pc               = "loop",
              !.game             = g,
              !.moves            = m,
              !.directions       = possible_directions(f.snake, g.board).value,
              !.best_result      =
                  inner([id \in Ids(g.snakes) |->
                            ScoreFactors_dead(id, "Normal", g.multisnake)],
                        f.depth),
              !.best_direction   = "Up",
              !.has_best_result  = FALSE,
              !.next_snake_index = (f.snake_index + 1) % Len(g.snakes),
              !.next_depth       =
                  IF (f.snake_index + 1) % Len(g.snakes) = ME
                  THEN f.depth + 1
                  ELSE f.depth]

\* Mutant: a call that finds the deadline passed answers with a placeholder
\* result instead of None.
on_deadline_Placeholder(f) ==
    Ok(outer([id \in Ids(f.game.snakes) |->
                 ScoreFactors_dead(id, "Normal", f.game.multisnake)],
             "Up", f.depth))

\* Mutant: a call that finds the deadline passed fails with an error.
on_deadline_Fails(f) == Err

\* What a call returns when it finds the deadline passed at its entry
\* (brain.rs:95-97).
on_deadline(f) == Ok(Nothing)

\* Mutant: a call whose child ran out of time returns its best so far.
on_incomplete_ReturnsBest(f) ==
    Ok(outer(f.best_result.scores, f.best_direction, f.best_result.depth))

\* What a call returns when the call it made for a direction returned None
\* (brain.rs:207-212).
on_incomplete(f) == Ok(Nothing)

\* Mutant: the score put in for the calling snake is that of a
\* self-sacrifice death.
with_own_score_Honourable(f, r) ==
    IF f.snake.id \in DOMAIN r.scores THEN r
    ELSE [r EXCEPT !.scores =
             [id \in DOMAIN r.scores \cup {f.snake.id} |->
                 IF id = f.snake.id
                 THEN ScoreFactors_dead(id, "Honourable", f.game.multisnake)
                 ELSE r.scores[id]]]

\* result.scores.entry(snake.id).or_insert_with(dead) (brain.rs:215-217).
with_own_score(f, r) ==
    IF f.snake.id \in DOMAIN r.scores THEN r
    ELSE [r EXCEPT !.scores =
             [id \in DOMAIN r.scores \cup {f.snake.id} |->
                 IF id = f.snake.id
                 THEN ScoreFactors_dead(id, "Normal", f.game.multisnake)
                 ELSE r.scores[id]]]

\* Mutant: a later direction replaces the best one on an equal score too.
is_better_OrEqual(f, r) ==
    IF f.has_best_result
    THEN calculate(r.scores[f.snake.id], r.depth)
             >= calculate(f.best_result.scores[f.snake.id],
                          f.best_result.depth)
    ELSE TRUE

\* Mutant: the first direction tried is kept whatever the later ones score.
is_better_FirstOnly(f, r) == ~f.has_best_result

\* Whether the result r of the direction just tried replaces the best so far
\* (brain.rs:232-270).
is_better(f, r) ==
    IF f.has_best_result
    THEN calculate(r.scores[f.snake.id], r.depth)
             > calculate(f.best_result.scores[f.snake.id],
                         f.best_result.depth)
    ELSE TRUE

\* The time budget, in calls of bigbrain: the clock has passed the deadline
\* by the time this many calls have been entered.
MaxCalls == 150

Top == stack[Len(stack)]

Return(v) ==
    /\ stack' = SubSeq(stack, 1, Len(stack) - 1)
    /\ ret' = v

Continue(f) ==
    /\ stack' = [stack EXCEPT ![Len(stack)] = f]
    /\ ret' = [outcome |-> "none"]

\* The clock passes the deadline.  bigbrain reads the clock only at its
\* entry, so the deadline passing at any moment since the last reading is
\* seen first by the call that is about to be entered.  This is the only
\* step left to a search that has used up its budget of calls.
Expire ==
    /\ stack # <<>>
    /\ Top.pc = "enter"
    /\ ~expired
    /\ expired' = TRUE
    /\ UNCHANGED <<root, stack, ret, known_scores, requested, best, answer,
                   cut, attempts, calls>>
    /\ UNCHANGED <<vars, call_vars, kept>>

\* A call goes on to its direction loop; possible_directions is asked of the
\* snake referenced at the entry (brain.rs:102, 165).
GoLoop(f, g, m) ==
    IF possible_directions(f.snake, g.board).outcome # "Ok"
    THEN Return(possible_directions(f.snake, g.board))
    ELSE Continue(enter_loop(f, g, m))

\* bigbrain is called: the call on top of the stack starts running and is
\* counted (brain.rs:95).
Entered ==
    /\ stack # <<>>
    /\ Top.pc = "enter"
    /\ calls' = calls + 1

\* The entry of a call up to its direction loop (brain.rs:95-191).
Entry ==
    /\ Entered
    /\ IF expired
       THEN /\ Return(on_deadline(Top))
            /\ cut' = TRUE
            /\ UNCHANGED known_scores
       ELSE /\ cut' = cut
            /\ IF Top.snake.id = ME /\ Top.depth > 0
               THEN LET m == retain_alive(Top.moves, Top.game)
                    IN  IF StepOutcome(Top.game, m) = "panic"
                        THEN Return(Panic) /\ UNCHANGED known_scores
                        ELSE IF StepOutcome(Top.game, m) = "Err"
                        THEN Return(Err) /\ UNCHANGED known_scores
                        ELSE LET stepped == step(Top.game, m)
                                 hash    == calculate_hash(stepped.game)
                                 scores  == terminal_scores(stepped)
                             IN  IF should_exit(stepped.game, Top.depth,
                                                requested)
                                 THEN IF scores.outcome # "Ok"
                                      THEN /\ Return(scores)
                                           /\ UNCHANGED known_scores
                                      ELSE /\ known_scores' =
                                                or_insert(known_scores, hash,
                                                          scores.value)
                                           /\ Return(Ok(inner(
                                                  known_scores'[hash],
                                                  Top.depth)))
                                 ELSE /\ GoLoop(Top, stepped.game, NoMoves)
                                      /\ UNCHANGED known_scores
               ELSE /\ GoLoop(Top, Top.game, Top.moves)
                    /\ UNCHANGED known_scores
    /\ UNCHANGED <<root, expired, requested, best, answer, attempts>>
    /\ UNCHANGED <<vars, call_vars, kept>>

\* A call is entered while the clock allows it: before the deadline only as
\* long as the budget of calls lasts.
Enter ==
    /\ ~expired => calls < MaxCalls
    /\ Entry

\* Mutant: the direction tried is not put into the move map.
insert_Nothing(m, id, direction) == m

\* moves.insert(snake.id, direction).
insert(m, id, direction) ==
    [k \in DOMAIN m \cup {id} |-> IF k = id THEN direction ELSE m[k]]

\* The loop takes its next direction and calls bigbrain for the next snake
\* (brain.rs:193-205).
Recurse ==
    /\ stack # <<>>
    /\ Top.pc = "loop"
    /\ Top.directions # <<>>
    /\ LET f == Top
           d == Head(f.directions)
           m == insert(f.moves, f.snake.id, d)
       IN  stack' = [stack EXCEPT ![Len(stack)] =
                        [f EXCEPT !.pc = "call", !.direction = d,
                                  !.moves = m]]
                    \o <<Frame(f.game, f.next_snake_index, f.next_depth, m)>>
    /\ UNCHANGED <<root, ret, known_scores, expired, requested, best, answer,
                   cut, attempts, calls>>
    /\ UNCHANGED <<vars, call_vars, kept>>

\* The call made for a direction has returned (brain.rs:205-270).
Resume ==
    /\ stack # <<>>
    /\ Top.pc = "call"
    /\ ret.outcome # "none"
    /\ IF ret.outcome # "Ok" THEN Return(ret)
       ELSE IF ~ret.value.some THEN Return(on_incomplete(Top))
       ELSE LET f == Top
                r == with_own_score(f, ret.value)
            IN  Continue([f EXCEPT
                    !.pc              = "loop",
                    !.directions      = Tail(f.directions),
                    !.tried           =
                        Append(f.tried, [direction |-> f.direction,
                                         returned  |-> ret.value,
                                         result    |-> r]),
                    !.best_result     =
                        IF is_better(f, r) THEN r ELSE f.best_result,
                    !.best_direction  =
                        IF is_better(f, r) THEN f.direction
                        ELSE f.best_direction,
                    !.has_best_result = TRUE])
    /\ UNCHANGED <<root, known_scores, expired, requested, best, answer,
                   cut, attempts, calls>>
    /\ UNCHANGED <<vars, call_vars, kept>>

\* The loop is over: the call returns its best result (brain.rs:288-292).
Finish ==
    /\ stack # <<>>
    /\ Top.pc = "loop"
    /\ Top.directions = <<>>
    /\ Return(Ok(outer(Top.best_result.scores, Top.best_direction,
                       Top.best_result.depth)))
    /\ UNCHANGED <<root, known_scores, expired, requested, best, answer,
                   cut, attempts, calls>>
    /\ UNCHANGED <<vars, call_vars, kept>>

(***************************************************************************)
(* The iterative-deepening driver.  It asks the search for depth 1, 2, ... *)
(* with one cache and one deadline; a completed attempt becomes the best   *)
(* known result, an attempt that ended shallower than it was asked to go   *)
(* ends the deepening, and an attempt that ran out of time ends it with    *)
(* the best known result, or with a failure when there is none.            *)
(***************************************************************************)
\* The games a direction is searched for: snapshots of snakes at full health
\* with two segments or MaxLen, with or without food, with or without a
\* hazard that closes the corner above slot 0.
SearchHazards == {{}, {Coord(1, 2)}}

SearchRoots ==
    {new(BuildSnakes(lens, No), food, hazards, Board) :
        lens \in ScoreLengths, food \in SnapshotFoods,
        hazards \in SearchHazards}

Between == stack = <<>> /\ answer.outcome = "none"

\* The driver starts its next attempt, one turn deeper than the last.
Attempt ==
    /\ Between
    /\ ret.outcome = "none"
    /\ requested' = requested + 1
    /\ stack' = <<Frame(root, 0, 0, NoMoves)>>
    /\ cut' = FALSE
    /\ UNCHANGED <<root, ret, known_scores, expired, best, answer, attempts,
                   calls>>
    /\ UNCHANGED <<vars, call_vars, kept>>

\* What the driver answers when an attempt came back with r, if it answers.
conclude(known, depth, r) ==
    IF r.outcome # "Ok" THEN r
    ELSE IF ~r.value.some
    THEN IF known.some THEN Ok(known.direction) ELSE Err
    ELSE IF r.value.depth < depth THEN Ok(r.value.direction)
    ELSE [outcome |-> "none"]

\* The driver takes what the attempt returned.
Collect ==
    /\ Between
    /\ ret.outcome # "none"
    /\ attempts' = Append(attempts, [depth    |-> requested,
                                     cut      |-> cut,
                                     returned |-> ret])
    /\ best' = IF ret.outcome = "Ok" /\ ret.value.some THEN ret.value
               ELSE best
    /\ answer' = conclude(best, requested, ret)
    /\ ret' = [outcome |-> "none"]
    /\ UNCHANGED <<root, stack, known_scores, expired, requested, cut,
                   calls>>
    /\ UNCHANGED <<vars, call_vars, kept>>

SearchInit ==
    /\ SimIdle
    /\ CallIdle
    /\ SearchIdle
    /\ root \in SearchRoots

SearchNext ==
    \/ Attempt
    \/ Expire
    \/ Enter
    \/ Recurse
    \/ Resume
    \/ Finish
    \/ Collect

SearchSpec == SearchInit /\ [][SearchNext]_all_vars

(***************************************************************************)
(* strangle/mod.rs: get_movement as it is in src.  It calls the search     *)
(* once, from an empty cache and with no time limit, to the depth set for  *)
(* the number of snakes of the game, and answers with the direction of the *)
(* result.                                                                 *)
(***************************************************************************)
\* A game on a board one cell wide: self has run up to the far end, and a
\* second snake has just come into the game at the near end.
Cornered ==
    new(<<[id |-> 0, body |-> <<Coord(0, 2), Coord(0, 1)>>, health |-> MAX_HEALTH],
          [id |-> 1, body |-> <<Coord(0, 0), Coord(0, 0)>>, health |-> MAX_HEALTH]>>,
        {}, {}, [width |-> 1, height |-> 3])

\* The games a direction is asked for: snakes of one length, no hazards, and
\* the cornered one.
MoveRoots ==
    {r \in SearchRoots :
        /\ r.hazards = {}
        /\ \A i \in 1..Len(r.snakes) :
               Len(r.snakes[i].body) = Len(r.snakes[1].body)}
    \cup {Cornered}

Ask ==
    /\ Between
    /\ ret.outcome = "none"
    /\ requested = 0
    /\ requested' = MaxDepth(root)
    /\ stack' = <<Frame(root, 0, 0, NoMoves)>>
    /\ UNCHANGED <<root, ret, known_scores, expired, best, answer, cut,
                   attempts, calls, kept>>
    /\ UNCHANGED <<vars, call_vars>>

Answer ==
    /\ Between
    /\ ret.outcome # "none"
    /\ answer' = IF ret.outcome = "Ok" /\ ret.value.some
                 THEN Ok(ret.value.direction)
                 ELSE Panic
    /\ best' = IF ret.outcome = "Ok" THEN ret.value ELSE best
    /\ ret' = [outcome |-> "none"]
    /\ UNCHANGED <<root, stack, known_scores, expired, requested, cut,
                   attempts, calls, kept>>
    /\ UNCHANGED <<vars, call_vars>>

MoveNext ==
    \/ Ask
    \/ Entry
    \/ Recurse
    \/ Resume
    \/ Finish
    \/ Answer

MoveInit ==
    /\ SimIdle
    /\ CallIdle
    /\ SearchIdle
    /\ root \in MoveRoots

\* get_movement runs on one thread and nothing in it waits: whichever step
\* is due is taken in the end.  A pending call is due exactly when Entered
\* can count it, so the fairness of the entry is stated on Entered.
MoveFair ==
    /\ WF_all_vars(Ask)
    /\ WF_calls(Entered)
    /\ WF_all_vars(Recurse)
    /\ WF_all_vars(Resume)
    /\ WF_all_vars(Finish)
    /\ WF_all_vars(Answer)

MoveSpec == MoveInit /\ [][MoveNext]_all_vars /\ MoveFair

(***************************************************************************)
(* The search called on its own for the depths 1, 2, ... one after the     *)
(* other, and every depth twice: first with the cache the earlier depths   *)
(* left, as a caller that deepens passes it, and then with an empty cache, *)
(* as the benchmarks pass it (bench.rs, benches/bigbrain.rs).  Every       *)
(* search has its own time limit; the run ends with the first search from  *)
(* an empty cache that runs out of time, or with the depth MaxSearchDepth. *)
(***************************************************************************)
\* The next search is the one with an empty cache.
Fresh == Len(attempts) % 2 = 1

\* A search is started.
Probe ==
    /\ Between
    /\ ret.outcome = "none"
    /\ Len(attempts) < 2 * MaxSearchDepth
    /\ requested' = (Len(attempts) \div 2) + 1
    /\ known_scores' = IF Fresh THEN NoCache ELSE kept
    /\ stack' = <<Frame(root, 0, 0, NoMoves)>>
    /\ cut' = FALSE
    /\ calls' = 0
    /\ expired' = FALSE
    /\ UNCHANGED <<root, ret, best, answer, attempts, kept>>
    /\ UNCHANGED <<vars, call_vars>>

\* A shorter time budget, in calls of bigbrain.
ShortCalls == MaxCalls \div 30

\* The time limits a search may have been given: one search of a run, one
\* that starts from the cache of the earlier ones, may have a short one, so
\* that the searches after it start from what a search that ran out of time
\* left.
Limits ==
    IF Fresh \/ \E k \in DOMAIN attempts : attempts[k].cut THEN {MaxCalls}
    ELSE {ShortCalls, MaxCalls}

\* The time limit of a search is reached.
TimeUp ==
    /\ stack # <<>>
    /\ Top.pc = "enter"
    /\ ~expired
    /\ calls \in Limits
    /\ expired' = TRUE
    /\ UNCHANGED <<root, stack, ret, known_scores, requested, best, answer,
                   cut, attempts, calls, kept>>
    /\ UNCHANGED <<vars, call_vars>>

\* The search has returned; what it returned is noted with the cache it
\* started from.
Note ==
    /\ Between
    /\ ret.outcome # "none"
    /\ attempts' = Append(attempts, [depth    |-> requested,
                                     fresh    |-> Fresh,
                                     cut      |-> cut,
                                     returned |-> ret])
    /\ kept' = IF Fresh THEN kept ELSE known_scores
    /\ answer' = IF cut /\ Fresh THEN [outcome |-> "done"] ELSE answer
    /\ ret' = [outcome |-> "none"]
    /\ UNCHANGED <<root, stack, known_scores, expired, requested, best, cut,
                   calls>>
    /\ UNCHANGED <<vars, call_vars>>

BenchNext ==
    \/ Probe
    \/ TimeUp
    \/ Enter
    \/ Recurse
    \/ Resume
    \/ Finish
    \/ Note

\* A game of three snakes of two cells each, all of them within a move of
\* the cell above slot 0's head.
Crowded ==
    new(<<[id |-> 0, body |-> <<Coord(0, 0), Coord(1, 0)>>, health |-> MAX_HEALTH],
          [id |-> 1, body |-> <<Coord(1, 1), Coord(1, 2)>>, health |-> MAX_HEALTH],
          [id |-> 2, body |-> <<Coord(0, 2), Coord(0, 1)>>, health |-> MAX_HEALTH]>>,
        {}, {}, Board)

\* The games searched: those make_game builds (bench.rs:14-68: snakes of one
\* length side by side, no hazards), and the crowded one.
BenchRoots ==
    {r \in SearchRoots :
        /\ r.hazards = {}
        /\ \A i \in 1..Len(r.snakes) :
               Len(r.snakes[i].body) = Len(r.snakes[1].body)}
        \cup {Crowded}

BenchInit ==
    /\ SimIdle
    /\ CallIdle
    /\ SearchIdle
    /\ root \in BenchRoots

BenchSpec == BenchInit /\ [][BenchNext]_all_vars

(***************************************************************************)
(* Vocabulary of the properties: the last call of step, as it is seen in   *)
(* the state.                                                              *)
(***************************************************************************)
Stepped == outcome = "Ok"

\* The snakes right after the move phase (step keeps them in prev_snakes).
Moved == game.prev_snakes

Alive == Ids(game.snakes)

HeadOf(snake) == snake.body[1]

\* Two different snakes that passed individual elimination with their new
\* heads on the same cell.
Collide(i, j) ==
    /\ i # j
    /\ HeadOf(retained[i]) = HeadOf(retained[j])

\* Some third snake, strictly longer than retained[i], came to the same cell.
LongerRival(i) ==
    \E k \in 1..Len(retained) :
        /\ k # i
        /\ HeadOf(retained[k]) = HeadOf(retained[i])
        /\ Len(retained[k].body) > Len(retained[i].body)

(***************************************************************************)
(* C1.  Equal-length head-to-head with self: when self (slot 0) and        *)
(* another snake of the same body length both pass individual elimination  *)
(* and their new heads are on the same cell, self is eliminated with the   *)
(* self-sacrifice classification (Honourable) and the other snake survives *)
(* the turn.  As claimed (C1_AsClaimed) this fails when a third, strictly  *)
(* longer snake comes to the same cell: it eliminates the other snake too. *)
(* C1_SelfLosesEqualHeadToHead is the amended statement: self is           *)
(* eliminated as Honourable, and the other snake survives the turn exactly *)
(* when no strictly longer snake's head is on that cell.                   *)
(***************************************************************************)
SelfTies(i, j) ==
    /\ Collide(i, j)
    /\ retained[i].id = ME
    /\ Len(retained[i].body) = Len(retained[j].body)

C1_AsClaimed ==
    Stepped =>
        \A i, j \in 1..Len(retained) :
            SelfTies(i, j) =>
                /\ ME \notin Alive
                /\ ME \in DOMAIN death_kind_map
                /\ death_kind_map[ME] = "Honourable"
                /\ retained[j].id \in Alive

C1_SelfLosesEqualHeadToHead ==
    Stepped =>
        \A i, j \in 1..Len(retained) :
            SelfTies(i, j) =>
                /\ ME \notin Alive
                /\ ME \in DOMAIN death_kind_map
                /\ death_kind_map[ME] = "Honourable"
                /\ retained[j].id \in Alive <=> ~LongerRival(j)

C1_Witness ==
    /\ Stepped
    /\ \E i, j \in 1..Len(retained) :
          /\ SelfTies(i, j)
          /\ retained[j].id \in Alive
          /\ ME \notin Alive

(***************************************************************************)
(* C2.  Equal-length head-to-head without self: when two snakes, neither   *)
(* of them self, have the same body length, pass individual elimination    *)
(* and have their new heads on the same cell, both are eliminated and both *)
(* are classified Normal (C2_AsClaimed).  The code does the opposite:      *)
(* only self can die of an equal-length collision.  C2_OthersSurviveTie is *)
(* the amended statement: neither of the two is eliminated by that pair;   *)
(* each survives the turn exactly when no strictly longer snake's head is  *)
(* on that cell, and one that survives has no death classification.        *)
(***************************************************************************)
OthersTie(i, j) ==
    /\ Collide(i, j)
    /\ retained[i].id # ME
    /\ retained[j].id # ME
    /\ Len(retained[i].body) = Len(retained[j].body)

C2_AsClaimed ==
    Stepped =>
        \A i, j \in 1..Len(retained) :
            OthersTie(i, j) =>
                /\ retained[i].id \notin Alive
                /\ retained[j].id \notin Alive
                /\ retained[i].id \in DOMAIN death_kind_map
                /\ retained[j].id \in DOMAIN death_kind_map
                /\ death_kind_map[retained[i].id] = "Normal"
                /\ death_kind_map[retained[j].id] = "Normal"

C2_OthersSurviveTie ==
    Stepped =>
        \A i, j \in 1..Len(retained) :
            OthersTie(i, j) =>
                /\ retained[i].id \in Alive <=> ~LongerRival(i)
                /\ retained[i].id \in Alive =>
                       retained[i].id \notin DOMAIN death_kind_map

C2_Witness ==
    /\ Stepped
    /\ \E i, j \in 1..Len(retained) :
          /\ OthersTie(i, j)
          /\ retained[i].id \in Alive
          /\ retained[j].id \in Alive

(***************************************************************************)
(* C3.  Unequal-length head-to-head: for every pair of snakes that pass    *)
(* individual elimination and whose new heads are on the same cell with    *)
(* different body lengths, the strictly shorter one is eliminated, and the *)
(* longer one is not eliminated by that pair: if the longer one is gone,   *)
(* some other snake on the same cell accounts for it (a strictly longer    *)
(* one, or one of equal length when the longer one is self).  This holds   *)
(* for every pair when three or more heads are on the cell.                *)
(***************************************************************************)
Shorter(i, j) ==
    /\ Collide(i, j)
    /\ Len(retained[i].body) < Len(retained[j].body)

OtherPairKills(j, i) ==
    \E k \in 1..Len(retained) :
        /\ k # i
        /\ Collide(k, j)
        /\ \/ Len(retained[k].body) > Len(retained[j].body)
           \/ /\ Len(retained[k].body) = Len(retained[j].body)
              /\ retained[j].id = ME

C3_ShorterLosesHeadToHead ==
    Stepped =>
        \A i, j \in 1..Len(retained) :
            Shorter(i, j) =>
                /\ retained[i].id \notin Alive
                /\ retained[j].id \notin Alive => OtherPairKills(j, i)

C3_Witness ==
    /\ Stepped
    /\ \E i, j, k \in 1..Len(retained) :
          /\ Shorter(i, j)
          /\ Shorter(j, k)
          /\ retained[k].id \in Alive
          /\ retained[i].id \notin Alive
          /\ retained[j].id \notin Alive

(***************************************************************************)
(* What the move phase is to do to the snake at position i of the input    *)
(* game, stated from the input game and the move map alone.                *)
(***************************************************************************)
Old(i) == input.snakes[i]

NewHead(i) ==
    LET d == moves[Old(i).id]
        h == HeadOf(Old(i))
    IN  CASE d = "Left"  -> [x |-> h.x - 1, y |-> h.y]
          [] d = "Right" -> [x |-> h.x + 1, y |-> h.y]
          [] d = "Up"    -> [x |-> h.x, y |-> h.y + 1]
          [] d = "Down"  -> [x |-> h.x, y |-> h.y - 1]

\* The cells under the non-head segments of snake i once it has moved: its
\* old body without the last segment.
Trail(i) == {Old(i).body[k] : k \in 1..(Len(Old(i).body) - 1)}

OffBoard(c) ==
    \/ c.x < 0
    \/ c.y < 0
    \/ c.x >= input.board.width
    \/ c.y >= input.board.height

(***************************************************************************)
(* C4.  Individual elimination: a snake is eliminated in the individual    *)
(* elimination phase if and only if, after the move phase, its health is   *)
(* <= 0, or its new head is off the board, or its new head is on a hazard  *)
(* cell or on a non-head segment of any snake, itself included, occupancy  *)
(* being that after every snake has moved.                                 *)
(***************************************************************************)
HitsBody(i) == \E j \in 1..Len(input.snakes) : NewHead(i) \in Trail(j)

C4_IndividualElimination ==
    Stepped =>
        \A i \in 1..Len(input.snakes) :
            Old(i).id \notin Ids(retained) <=>
                \/ Old(i).health - 1 <= 0
                \/ OffBoard(NewHead(i))
                \/ NewHead(i) \in input.hazards
                \/ HitsBody(i)

\* A snake in good health, on the board and off the hazards is eliminated
\* for entering a cell that another snake's body still covers, while some
\* snake enters a cell that a tail has just left and is retained.
C4_Witness ==
    /\ Stepped
    /\ \E i, j \in 1..Len(input.snakes) :
          /\ i # j
          /\ Old(i).health > 1
          /\ ~OffBoard(NewHead(i))
          /\ NewHead(i) \notin input.hazards
          /\ NewHead(i) \in Trail(j)
          /\ Old(i).id \notin Ids(retained)
    /\ \E i, j \in 1..Len(input.snakes) :
          /\ NewHead(i) = Old(j).body[Len(Old(j).body)]
          /\ Old(i).id \in Ids(retained)

(***************************************************************************)
(* C5.  The slots alive after step are a subset of the slots alive before  *)
(* it: step never increases the number of surviving snakes and never       *)
(* introduces or revives a snake, in any sequence of steps (every state of *)
(* every behaviour is the result of the steps before it).                  *)
(***************************************************************************)
C5_SurvivorsShrink ==
    /\ Alive \subseteq Ids(input.snakes)
    /\ Len(game.snakes) <= Len(input.snakes)
    /\ \A i, j \in 1..Len(game.snakes) :
          game.snakes[i].id = game.snakes[j].id => i = j

C5_Witness ==
    /\ Stepped
    /\ turn = 2
    /\ Alive # {}
    /\ Alive # Ids(input.snakes)
    /\ Ids(input.snakes) # Ids(input.prev_snakes)

(***************************************************************************)
(* C6.  Move phase: for every snake with a body of any length >= 1, length *)
(* 1 included, the move phase leaves the body length unchanged, makes the  *)
(* new head the old head shifted one cell along the chosen direction,      *)
(* makes the other segments the old body without its last segment, and     *)
(* lowers health by exactly 1; it does not fail for any non-empty body.    *)
(* The code fails on a body of length 1: it drops the tail before it reads *)
(* the front.                                                              *)
(***************************************************************************)
C6_AsClaimed ==
    (outcome # "none" /\ DOMAIN moves = Ids(input.snakes)) =>
        /\ outcome = "Ok"
        /\ Len(Moved) = Len(input.snakes)
        /\ \A i \in 1..Len(input.snakes) :
              /\ Moved[i].id = Old(i).id
              /\ Len(Moved[i].body) = Len(Old(i).body)
              /\ HeadOf(Moved[i]) = NewHead(i)
              /\ \A k \in 2..Len(Old(i).body) :
                    Moved[i].body[k] = Old(i).body[k - 1]
              /\ Moved[i].health = Old(i).health - 1

(***************************************************************************)
(* C7.  Food consumption: every snake that survives both elimination       *)
(* phases and whose head is on a food cell ends the turn with health equal *)
(* to the maximum and a body one longer, the extra segment a copy of its   *)
(* tail; a survivor whose head is not on food keeps its length and its     *)
(* decremented health.  The code feeds only the first snake in the list on *)
(* a food cell: a second survivor on the same cell (two snakes of equal    *)
(* length, neither of them self) is left unfed.                            *)
(***************************************************************************)
MovedOf(id) == Moved[CHOOSE i \in 1..Len(Moved) : Moved[i].id = id]

C7_AsClaimed ==
    Stepped =>
        \A i \in 1..Len(game.snakes) :
            LET after  == game.snakes[i]
                before == MovedOf(after.id)
            IN  IF HeadOf(before) \in input.food
                THEN /\ after.health = MAX_HEALTH
                     /\ after.body =
                            Append(before.body, before.body[Len(before.body)])
                ELSE /\ after.health = before.health
                     /\ after.body = before.body

(***************************************************************************)
(* C8.  The food after step is the food before step minus exactly the      *)
(* cells on which a surviving snake's head landed: no food cell is ever    *)
(* added, and a food cell under the head of a snake eliminated in the same *)
(* turn remains.                                                           *)
(***************************************************************************)
C8_FoodOnlyEaten ==
    Stepped =>
        /\ game.food \subseteq input.food
        /\ \A f \in input.food :
              f \in game.food <=>
                  ~(\E i \in 1..Len(input.snakes) :
                        /\ Old(i).id \in Alive
                        /\ NewHead(i) = f)

\* One food cell is eaten by a survivor while another stays under the head
\* of a snake eliminated in the same turn.
C8_Witness ==
    /\ Stepped
    /\ \E i, j \in 1..Len(input.snakes) :
          /\ Old(i).id \notin Alive
          /\ NewHead(i) \in input.food
          /\ NewHead(i) \in game.food
          /\ Old(j).id \in Alive
          /\ NewHead(j) \in input.food
          /\ NewHead(j) \notin game.food

(***************************************************************************)
(* C10.  A move map that lacks an entry for a snake alive in the game      *)
(* being stepped makes step abort fatally (panic); step never returns a    *)
(* game in that case.  The code returns an error value instead of          *)
(* panicking when a snake earlier in the list has a body of length 1.      *)
(***************************************************************************)
LacksMove == \E i \in 1..Len(input.snakes) : Old(i).id \notin DOMAIN moves

C10_AsClaimed ==
    (outcome # "none" /\ LacksMove) =>
        /\ outcome = "panic"
        /\ game = input

(***************************************************************************)
(* C11.  step leaves the hazard set, the board dimensions and the          *)
(* multisnake flag of the result equal to those of the input, and the      *)
(* input game is not modified: the game the call was given (step takes     *)
(* &self and works on a clone) is still the game the caller holds, so      *)
(* every sibling branch explored from one state sees the same input.       *)
(***************************************************************************)
C11_StepFrame ==
    Stepped =>
        /\ game.hazards = input.hazards
        /\ game.board = input.board
        /\ game.multisnake = input.multisnake

\* A game built with several snakes is down to at most one, and a snake died
\* on a hazard that is still there: the flag and the hazards are as before.
C11_Witness ==
    /\ Stepped
    /\ game.multisnake
    /\ Len(game.snakes) <= 1
    /\ game.hazards # {}
    /\ \E i \in 1..Len(input.snakes) : NewHead(i) \in input.hazards

(***************************************************************************)
(* C12.  Legal-direction enumeration for a snake returns exactly the four  *)
(* compass directions minus the one that reverses into its neck (excluded  *)
(* only when the body has at least two segments and the first two differ)  *)
(* minus every direction whose target cell is out of bounds; for a body of *)
(* length 1 it returns all in-bounds directions without failing.  The code *)
(* fails on a body of length 1: it reads the second segment to find the    *)
(* facing.                                                                 *)
(***************************************************************************)
Asked == call.fn = "possible_directions" /\ result.outcome # "none"

Target(snake, d) ==
    CASE d = "Left"  -> [x |-> snake.body[1].x - 1, y |-> snake.body[1].y]
      [] d = "Right" -> [x |-> snake.body[1].x + 1, y |-> snake.body[1].y]
      [] d = "Up"    -> [x |-> snake.body[1].x, y |-> snake.body[1].y + 1]
      [] d = "Down"  -> [x |-> snake.body[1].x, y |-> snake.body[1].y - 1]

ReversesIntoNeck(snake, d) ==
    /\ Len(snake.body) >= 2
    /\ snake.body[1] # snake.body[2]
    /\ Target(snake, d) = snake.body[2]

InBounds(c) ==
    /\ c.x \in 0..(BoardWidth - 1)
    /\ c.y \in 0..(BoardHeight - 1)

Legal(snake) ==
    {d \in {"Up", "Down", "Left", "Right"} :
        /\ ~ReversesIntoNeck(snake, d)
        /\ InBounds(Target(snake, d))}

C12_AsClaimed ==
    Asked =>
        /\ result.outcome = "Ok"
        /\ {result.value[k] : k \in 1..Len(result.value)} = Legal(call.snake)
        /\ Len(result.value) = Cardinality(Legal(call.snake))

(***************************************************************************)
(* Vocabulary of the driver's properties: an attempt is completed when no  *)
(* call of it found the deadline passed and it returned a result.          *)
(***************************************************************************)
Completed(a) ==
    /\ ~a.cut
    /\ a.returned.outcome = "Ok"
    /\ a.returned.value.some

Made == DOMAIN attempts

Deepest(k) ==
    /\ k \in Made
    /\ Completed(attempts[k])
    /\ \A j \in Made :
           Completed(attempts[j]) => attempts[j].depth <= attempts[k].depth

C15_ExpiryVoidsAttempt ==
    /\ (cut /\ stack # <<>>) => (ret = Ok(Nothing) /\ Top.pc = "call")
    /\ (cut /\ stack = <<>> /\ ret.outcome # "none") => ret = Ok(Nothing)

\* An ancestor that already holds a best result is handed "incomplete".
C15_Witness ==
    /\ cut
    /\ Len(stack) >= 2
    /\ Top.pc = "call"
    /\ Top.has_best_result
    /\ ret = Ok(Nothing)

(***************************************************************************)
(* C16.  Scenario B: when self and an equal-length opponent can both move  *)
(* their heads onto the same cell next turn, and self has at least one     *)
(* other legal direction that does not itself cause self's immediate       *)
(* death, the direction chosen by the search is not the contested cell.    *)
(* As claimed, read in the claim's favour: the other direction keeps self  *)
(* alive through the next turn whatever the other snakes do.               *)
(***************************************************************************)
Self == root.snakes[ME + 1]

Open(snake) == possible_directions(snake, root.board).value

Onto(snake, d) == neighbour(snake.body[1], d)

\* An opponent as long as self can move its head onto the cell d leads to.
Contested(d) ==
    \E i \in 2..Len(root.snakes) :
        /\ Len(root.snakes[i].body) = Len(Self.body)
        /\ \E k \in DOMAIN Open(root.snakes[i]) :
               Onto(root.snakes[i], Open(root.snakes[i])[k]) = Onto(Self, d)

\* Self is in the game after the turn in which it moved to d, whatever the
\* moves of the others.
Survivable(d) ==
    \A m \in [Ids(root.snakes) -> Direction] :
        m[ME] = d => ME \in Ids(step(root, m).game.snakes)

ScenarioB(d) ==
    /\ \E k \in DOMAIN Open(Self) : Open(Self)[k] = d
    /\ Contested(d)
    /\ \E k \in DOMAIN Open(Self) :
           Open(Self)[k] # d /\ Survivable(Open(Self)[k])

RootDone ==
    /\ Len(stack) = 1
    /\ Top.depth = 0
    /\ Top.pc = "loop"
    /\ Top.directions = <<>>
    /\ Top.has_best_result

AliveFor(t) == ~t.result.scores[ME].dead

Built == call.fn = "try_from" /\ result.outcome # "none"

Agents == call.state.board.snakes

SelfListed == \E i \in 1..Len(Agents) : Agents[i].id = call.state.you.id

\* The one-to-one assignments of the snapshot's agents to list positions.
Placements ==
    {f \in [1..Len(Agents) -> 1..Len(Agents)] :
        \A i, j \in 1..Len(Agents) : f[i] = f[j] => i = j}

C17_Construction ==
    Built =>
        IF SelfListed
        THEN /\ result.outcome = "Ok"
             /\ Len(result.value.snakes) = Len(Agents)
             /\ \A i \in 1..Len(Agents) : result.value.snakes[i].id = i - 1
             /\ \E f \in Placements :
                   \A i \in 1..Len(Agents) :
                       /\ result.value.snakes[f[i]].body = Agents[i].body
                       /\ result.value.snakes[f[i]].health = Agents[i].health
                       /\ Agents[i].id = call.state.you.id => f[i] = 1
             /\ result.value.multisnake <=> Len(Agents) > 1
        ELSE /\ result.outcome = "Err"
             /\ DOMAIN result = {"outcome"}

\* Self is the last of three agents of the snapshot, and is the one that is
\* short of health: it is found in slot 0 of the game.
C17_Witness ==
    /\ Built
    /\ Len(Agents) = MaxSnakes
    /\ Agents[Len(Agents)].id = call.state.you.id
    /\ Agents[Len(Agents)].health < Agents[1].health
    /\ result.outcome = "Ok"
    /\ result.value.snakes[1].health = Agents[Len(Agents)].health
    /\ result.value.snakes[Len(Agents)].body = Agents[1].body

(***************************************************************************)
(* C18.  Flood-fill returns exactly the number of cells of the 4-connected *)
(* component of in-bounds free cells that contains the seed, the seed      *)
(* itself counted: W x H on a W x H board with no obstructions, and 1 when *)
(* every neighbour of the seed is occupied or out of bounds.  The seed is  *)
(* counted whether or not its own cell is free (the head of a stacked body *)
(* lies on its own second segment); for a free seed the cells reached are  *)
(* its component.                                                          *)
(***************************************************************************)
Flooded == call.fn = "floodfill" /\ result.outcome # "none"

FreeCell(c) ==
    /\ InBounds(c)
    /\ call.freespace[c.x + c.y * BoardWidth]

NextTo(a, b) ==
    \/ (a.x = b.x /\ (a.y = b.y + 1 \/ b.y = a.y + 1))
    \/ (a.y = b.y /\ (a.x = b.x + 1 \/ b.x = a.x + 1))

\* The cells joined to the seed by a chain of free cells, each next to the
\* one before.
RECURSIVE Component(_)
Component(S) ==
    LET T == S \cup {n \in Cells : FreeCell(n) /\ \E c \in S : NextTo(c, n)}
    IN  IF T = S THEN S ELSE Component(T)

C18_FloodfillCountsComponent ==
    Flooded =>
        /\ result.outcome = "Ok"
        /\ result.value = Cardinality(Component({call.seed}))
        /\ (\A c \in Cells : FreeCell(c)) =>
               result.value = BoardWidth * BoardHeight
        /\ (\A n \in Cells : NextTo(call.seed, n) => ~FreeCell(n)) =>
               result.value = 1

\* A free seed in a component of more than one cell that is not all of the
\* free cells: some free cell is cut off from it.
C18_Witness ==
    /\ Flooded
    /\ FreeCell(call.seed)
    /\ result.outcome = "Ok"
    /\ result.value > 2
    /\ \E c \in Cells : FreeCell(c) /\ c \notin Component({call.seed})

(***************************************************************************)
(* C19.  For a snake scored as dead, the scalar score is strictly          *)
(* increasing in the depth at which it is evaluated: of two otherwise      *)
(* identical dead scores, the one at the greater depth is strictly higher. *)
(***************************************************************************)
Scored == call.fn = "score" /\ result.outcome = "Ok"

ScoredDead == Scored /\ call.id \notin Ids(result.value.game.snakes)

C19_DyingLaterScoresHigher ==
    ScoredDead =>
        \A d1, d2 \in DOMAIN result.value.scores :
            d1 < d2 => result.value.scores[d1] < result.value.scores[d2]

\* A snake that died with the self-sacrifice classification.
C19_Witness ==
    /\ ScoredDead
    /\ result.value.factors.dead
    /\ result.value.factors.death_kind = "Honourable"
    /\ result.value.scores[0] < result.value.scores[MaxSearchDepth]

(***************************************************************************)
(* C20.  A living snake receives the winning score only when the game was  *)
(* built with more than one snake and no opponent remains; a win at a      *)
(* smaller depth then scores strictly higher than a win at a larger depth, *)
(* and a solo game (built with one snake) never yields the winning score   *)
(* even though zero opponents remain.                                      *)
(***************************************************************************)
ScoredAlive == Scored /\ call.id \in Ids(result.value.game.snakes)

WinningScore(d) == 10000000 - d * 100

Wins ==
    /\ Len(call.built.snakes) > 1
    /\ Len(result.value.game.snakes) = 1

C20_WinningScore ==
    ScoredAlive =>
        /\ \A d \in DOMAIN result.value.scores :
              result.value.scores[d] = WinningScore(d) <=> Wins
        /\ \A d1, d2 \in DOMAIN result.value.scores :
              d1 < d2 =>
                  /\ Wins => result.value.scores[d1] > result.value.scores[d2]
                  /\ ~Wins => result.value.scores[d2] < WinningScore(d1)

\* The last survivor of a game built with three snakes.
C20_Witness ==
    /\ ScoredAlive
    /\ Len(call.built.snakes) = 3
    /\ Wins
    /\ result.value.scores[1] = WinningScore(1)
    /\ result.value.scores[1] > result.value.scores[2]

(***************************************************************************)
(* C21.  Scenario C: at the same depth, an agent with health = 1 and no    *)
(* food reachable within the search horizon scores strictly lower than it  *)
(* does in a state that is identical except that its health is greater     *)
(* than 1.  As claimed, for every living snake of a scored game.           *)
(***************************************************************************)
\* The game g with the health of snake id set to h, all else the same.
with_health(g, id, h) ==
    [g EXCEPT !.snakes =
        [i \in DOMAIN g.snakes |->
            IF g.snakes[i].id = id
            THEN [health |-> h, id |-> id, body |-> g.snakes[i].body]
            ELSE g.snakes[i]]]

\* The factors of the scored snake in the same game, had its health been 1.
Starving ==
    LET g == with_health(result.value.game, call.id, 1)
    IN  score(g, SnakeOf(g.snakes, call.id),
              step(call.built, call.moves).freespace, "Normal").value

Healthy == ScoredAlive /\ result.value.factors.health > 1

C21_AsClaimed ==
    Healthy =>
        \A d \in DOMAIN result.value.scores :
            calculate(Starving, d) < result.value.scores[d]

(***************************************************************************)
(* C21, amended.  At the same depth a living agent with health = 1 scores  *)
(* strictly lower than in the state that differs only in its health being  *)
(* greater than 1, unless it is the last survivor of a game built with     *)
(* more than one agent: the winning score does not depend on health, and   *)
(* the two states then score the same.                                     *)
(***************************************************************************)
C21_LowHealthScoresLower ==
    Healthy =>
        \A d \in DOMAIN result.value.scores :
            IF Wins
            THEN calculate(Starving, d) = result.value.scores[d]
            ELSE calculate(Starving, d) < result.value.scores[d]

\* A snake that did not eat, with an opponent left in the game.
C21_Witness ==
    /\ Healthy
    /\ ~Wins
    /\ Len(result.value.game.snakes) >= 2
    /\ result.value.factors.health = MAX_HEALTH - 1
    /\ Starving.health = 1
    /\ calculate(Starving, 1) < result.value.scores[1]

(***************************************************************************)
(* C22.  Whenever the search invokes step, the move map holds exactly one  *)
(* direction for every agent alive in the state being stepped and no entry *)
(* for any other slot, so step's missing-move abort is unreachable from    *)
(* the search; step is invoked only at a node where turn order has         *)
(* returned to slot 0 with depth > 0, exactly once per ply, and the ply's  *)
(* move map is empty after it.                                             *)
(***************************************************************************)
\* The call of frame f is at its entry and will step its game.
StepsNext(f) == f.pc = "enter" /\ f.snake.id = ME /\ f.depth > 0

\* The ids of the first n snakes of g, in turn order.
Chosen(g, n) == {g.snakes[i].id : i \in 1..n}

C22_StepGetsFullPly ==
    /\ ret.outcome \in {"none", "Ok"}
    /\ \A k \in DOMAIN stack :
           LET f == stack[k]
           IN  /\ f.snake.id = ME <=> f.snake_index = 0
               /\ StepsNext(f) =>
                      /\ DOMAIN f.moves = Ids(f.game.snakes)
                      /\ retain_alive(f.moves, f.game) = f.moves
                      /\ StepOutcome(f.game, f.moves) = "Ok"
               /\ (f.pc = "enter" /\ ~StepsNext(f)) =>
                      DOMAIN f.moves = Chosen(f.game, f.snake_index)
               /\ (f.pc = "loop" /\ f.tried = <<>>) =>
                      DOMAIN f.moves = Chosen(f.game, f.snake_index)
               /\ (f.pc = "loop" /\ f.tried # <<>>) =>
                      DOMAIN f.moves = Chosen(f.game, f.snake_index + 1)
               /\ f.pc = "call" =>
                      DOMAIN f.moves = Chosen(f.game, f.snake_index + 1)
               /\ k > 1 =>
                      /\ f.snake_index =
                             (stack[k - 1].snake_index + 1)
                                 % Len(stack[k - 1].game.snakes)
                      /\ f.depth = stack[k - 1].depth
                                       + (IF f.snake_index = 0 THEN 1 ELSE 0)
               /\ k = 1 => (f.snake_index = 0 /\ f.depth = 0)

\* The second step of a search, on a game that has lost a snake.
C22_Witness ==
    /\ stack # <<>>
    /\ StepsNext(Top)
    /\ Top.depth = 2
    /\ Len(Top.game.snakes) = 2
    /\ Len(root.snakes) = 3
    /\ DOMAIN Top.moves = Ids(Top.game.snakes)
    /\ Ids(Top.game.snakes) # 0..1

(***************************************************************************)
(* C23.  At every decision node of the search, including self's nodes at   *)
(* depth >= 1 that are entered immediately after a simulated turn, the     *)
(* directions explored for the active agent are exactly the legal          *)
(* directions of that agent's body in the node's current (post-turn) game  *)
(* state; in particular the search never explores the direction that       *)
(* reverses into the agent's current neck.  As claimed.                    *)
(***************************************************************************)
\* The call of frame f has just set up its direction loop.
Deciding(f) == f.pc = "loop" /\ f.tried = <<>>

\* The active agent of frame f as it is in the game the loop works on.
Active(f) == SnakeOf(f.game.snakes, f.snake.id)

C23_AsClaimed ==
    \A k \in DOMAIN stack :
        Deciding(stack[k]) =>
            /\ stack[k].directions =
                   possible_directions(Active(stack[k]),
                                       stack[k].game.board).value
            /\ \A i \in DOMAIN stack[k].directions :
                   neighbour(Active(stack[k]).body[1], stack[k].directions[i])
                       # Active(stack[k]).body[2]

(***************************************************************************)
(* C24.  After each simulated turn the search stops at that node and       *)
(* returns terminal scores if and only if self is not among the survivors, *)
(* or the game was built with more than one agent and at most one agent    *)
(* survives, or the depth equals the caller's maximum; otherwise it        *)
(* continues, and a solo game with self alive is never stopped by the      *)
(* survivor-count condition.                                               *)
(***************************************************************************)
\* The call on top of the stack is entered and simulates a turn.
Simulates ==
    /\ stack # <<>>
    /\ StepsNext(Top)
    /\ calls' = calls + 1
    /\ ~expired

\* The game has the outcome the claim stops at.
Decided(g) ==
    \/ ME \notin Ids(g.snakes)
    \/ Len(root.snakes) > 1 /\ Len(g.snakes) <= 1
    \/ Top.depth = requested

\* The call returned the scores of every snake that was in the turn, and no
\* direction.
ReturnsTerminal(g) ==
    /\ Len(stack') = Len(stack) - 1
    /\ ret'.outcome = "Ok"
    /\ ret'.value.some
    /\ ret'.value.direction = None
    /\ ret'.value.depth = Top.depth
    /\ DOMAIN ret'.value.scores = Ids(g.prev_snakes)

\* The call goes on to choose a direction in the game after the turn.
GoesOn(g) ==
    /\ Len(stack') = Len(stack)
    /\ stack'[Len(stack')].pc = "loop"
    /\ stack'[Len(stack')].game = g
    /\ ret'.outcome = "none"

C24_StopsWhenDecided ==
    [][Simulates =>
          LET g == step(Top.game, Top.moves).game
          IN  IF Decided(g) THEN ReturnsTerminal(g) ELSE GoesOn(g)]_all_vars

\* A solo game goes on after its first turn with self its only snake.
C24_Witness ==
    /\ stack # <<>>
    /\ Len(root.snakes) = 1
    /\ Top.pc = "loop"
    /\ Top.snake_index = 0
    /\ Top.depth = 1
    /\ Top.tried = <<>>
    /\ Len(Top.game.snakes) = 1
    /\ requested > 1

(***************************************************************************)
(* C25.  At every decision node the active agent, whether self or an       *)
(* opponent, selects among its explored directions the first one in        *)
(* enumeration order whose resulting score for its own slot is maximal:    *)
(* the first explored direction is taken unconditionally and a later one   *)
(* replaces it only when its own-slot score is strictly greater; no        *)
(* agent's choice minimises another agent's score.                         *)
(***************************************************************************)
\* The score the result compared for a direction gives to snake id.
ScoreFor(id, t) == calculate(t.result.scores[id], t.result.depth)

\* The k-th direction the call of frame f is done with is the first that is
\* best for the frame's own snake.
FirstBest(f, k) ==
    /\ \A j \in DOMAIN f.tried :
           ScoreFor(f.snake.id, f.tried[j]) <= ScoreFor(f.snake.id, f.tried[k])
    /\ \A j \in 1..(k - 1) :
           ScoreFor(f.snake.id, f.tried[j]) < ScoreFor(f.snake.id, f.tried[k])

C25_FirstOwnBest ==
    \A n \in DOMAIN stack :
        LET f == stack[n]
        IN  /\ f.has_best_result <=> f.tried # <<>>
            /\ f.tried # <<>> =>
                   \E k \in DOMAIN f.tried :
                       /\ FirstBest(f, k)
                       /\ f.best_direction = f.tried[k].direction
                       /\ f.best_result = f.tried[k].result

\* An opponent replaced its first direction by a later one that scores
\* strictly higher for it, though the first was worse for self.
C25_Witness ==
    /\ stack # <<>>
    /\ Top.snake.id # ME
    /\ Top.pc = "loop"
    /\ Len(Top.tried) >= 2
    /\ Top.best_direction = Top.tried[2].direction
    /\ ScoreFor(Top.snake.id, Top.tried[2])
           > ScoreFor(Top.snake.id, Top.tried[1])
    /\ ScoreFor(ME, Top.tried[1]) < ScoreFor(ME, Top.tried[2])

(***************************************************************************)
(* C26.  If a completed search with requested maximum depth D reports an   *)
(* effective depth smaller than D, then a completed search of the same     *)
(* game with any larger maximum depth returns the same direction and the   *)
(* same outcome (same score vector and effective depth), for games with    *)
(* any number of agents.                                                   *)
(***************************************************************************)
\* The search noted i-th ended shallower than it was asked to go.
Shallow(i) ==
    /\ Completed(attempts[i])
    /\ attempts[i].returned.value.depth < attempts[i].depth

Stops(k) == attempts[k].cut \/ Shallow(k)

\* The driver has stopped.
Stopped == answer.outcome # "none"

\* Every entry of the cache is still there, unchanged, after the step.
CacheKept ==
    \A h \in DOMAIN known_scores :
        /\ h \in DOMAIN known_scores'
        /\ known_scores'[h] = known_scores[h]

\* The attempts made so far are the depths 1, 2, ... and only the last of
\* them may be one the driver stops at; the driver has stopped exactly when
\* it is.
InOrder ==
    /\ \A k \in Made : attempts[k].depth = k
    /\ \A k \in Made : k < Len(attempts) => ~Stops(k)
    /\ Stopped <=> (attempts # <<>> /\ Stops(Len(attempts)))

\* No step empties the cache, and none starts an attempt after the deadline.
Deepens ==
    /\ CacheKept
    /\ expired => requested' = requested
    /\ requested' \in {requested, requested + 1}

Hit ==
    /\ stack # <<>>
    /\ Top.pc = "enter"
    /\ ~expired
    /\ Top.snake.id = ME
    /\ Top.depth > 0
    /\ StepOutcome(Top.game, retain_alive(Top.moves, Top.game)) = "Ok"
    /\ LET stepped == step(Top.game, retain_alive(Top.moves, Top.game))
       IN  /\ should_exit(stepped.game, Top.depth, requested)
           /\ terminal_scores(stepped).outcome = "Ok"
           /\ calculate_hash(stepped.game) \in DOMAIN known_scores

\* The entry the cache has for the game the call has stepped to.
Cached ==
    known_scores[calculate_hash(
        step(Top.game, retain_alive(Top.moves, Top.game)).game)]

\* The scores of that game, computed from the step that led to it.
Afresh ==
    terminal_scores(step(Top.game, retain_alive(Top.moves, Top.game))).value

\* The searches noted i-th and j-th were the same search but for the cache
\* they started from; both ran to their end.
Twins(i, j) ==
    /\ attempts[i].depth = attempts[j].depth
    /\ ~attempts[i].fresh
    /\ attempts[j].fresh
    /\ ~attempts[i].cut
    /\ ~attempts[j].cut

C28_MemoTransparent ==
    /\ \A i, j \in Made :
           Twins(i, j) => attempts[i].returned = attempts[j].returned
    /\ Hit => Cached = Afresh

\* A search that started from the cache left by a search cut off by its time
\* limit, and by shallower ones, has returned what its twin returned; the
\* search now running has found an entry in the cache it was given.
C28_Witness ==
    /\ \E c, i, j \in Made :
           /\ c < i
           /\ attempts[c].cut
           /\ Twins(i, j)
           /\ Completed(attempts[i])
           /\ attempts[i].depth > 1
    /\ Hit
    /\ ~Fresh
    /\ kept # NoCache

(***************************************************************************)
(* C29.  During flood-fill every reachable cell is dequeued and expanded   *)
(* at most once, so the number of queue operations of one flood-fill is    *)
(* bounded by the board area, on every board including a fully open one.   *)
(***************************************************************************)
\* The number of cells the flood fill called took off its queue.
Dequeued == FloodLoop(Board, call.freespace, <<call.seed>>, {}, 0).pops

C29_AsClaimed ==
    (Flooded /\ result.outcome = "Ok") =>
        Dequeued <= BoardWidth * BoardHeight

(***************************************************************************)
(* C30.  Every agent eliminated by step receives exactly one death         *)
(* classification, and that classification is the self-sacrifice tie       *)
(* (Honourable) only when the agent is self (slot 0) eliminated in an      *)
(* equal-length head-to-head; starvation, leaving the board, hitting a     *)
(* body or hazard, and losing a head-to-head to a strictly longer agent    *)
(* are all classified as normal deaths.                                    *)
(***************************************************************************)
\* The snakes the last step eliminated.
Gone == Ids(Moved) \ Alive

\* Self came head to head with a snake of its own length.
SelfTied == \E i, j \in 1..Len(retained) : SelfTies(i, j)

C30_AsClaimed ==
    Stepped =>
        /\ DOMAIN death_kind_map = Gone
        /\ \A id \in Gone :
               death_kind_map[id] =
                   IF id = ME /\ SelfTied THEN "Honourable" ELSE "Normal"

(***************************************************************************)
(* C31.  Because the tail is dropped before occupancy is computed, a snake *)
(* whose new head enters a cell that before the move held only the last    *)
(* segment of some snake's body (its own or another's) is not eliminated   *)
(* by the occupancy check, except when that last segment was duplicated by *)
(* eating on the previous turn, in which case the cell is still occupied   *)
(* and the snake is eliminated.                                            *)
(***************************************************************************)
\* The segments the snakes had on cell c before the move, as pairs of a
\* position in the list and a position in the body.
SegmentsOn(c) ==
    {p \in (1..Len(input.snakes)) \X (1..MaxLen + 1) :
        /\ p[2] <= Len(input.snakes[p[1]].body)
        /\ input.snakes[p[1]].body[p[2]] = c}

\* Before the move cell c held the last segment of one snake and nothing
\* else: no other segment and no hazard.
TailOnly(c) ==
    /\ c \notin input.hazards
    /\ Cardinality(SegmentsOn(c)) = 1
    /\ \A p \in SegmentsOn(c) : p[2] = Len(input.snakes[p[1]].body)

\* Before the move cell c held the last segment of a snake twice over: the
\* tail as eating leaves it.
DoubledTail(c) ==
    \E i \in 1..Len(input.snakes) :
        LET body == input.snakes[i].body
        IN  /\ Len(body) >= 2
            /\ body[Len(body)] = c
            /\ body[Len(body) - 1] = c

PassedOccupancy(i) == Moved[i].id \in Ids(retained)

C31_TailCellIsFree ==
    Stepped =>
        \A i \in 1..Len(Moved) :
            /\ (TailOnly(HeadOf(Moved[i])) /\ Moved[i].health > 0)
                   => PassedOccupancy(i)
            /\ DoubledTail(HeadOf(Moved[i])) => ~PassedOccupancy(i)

\* One snake has moved onto the cell another snake's tail left, and passed;
\* another has moved onto a doubled tail, and has not.
C31_Witness ==
    /\ Stepped
    /\ \E i, j \in 1..Len(Moved) :
          /\ i # j
          /\ TailOnly(HeadOf(Moved[i]))
          /\ HeadOf(Moved[i]) # input.snakes[i].body[Len(input.snakes[i].body)]
          /\ PassedOccupancy(i)
          /\ DoubledTail(HeadOf(Moved[j]))
          /\ ~PassedOccupancy(j)

(***************************************************************************)
(* C32.  When the result returned for an explored direction has no score   *)
(* for the active snake's slot, the search inserts a dead-score            *)
(* placeholder for that slot before comparing, so the comparison is always *)
(* defined and such a direction is valued as a death at the returned       *)
(* result's depth.                                                         *)
(***************************************************************************)
\* The result returned for the direction of entry e lacked the score of the
\* snake that call f moves.
Unscored(f, e) == f.snake.id \notin DOMAIN e.returned.scores

\* What a direction is worth to the snake that call f moves.
Worth(f, r) == calculate(r.scores[f.snake.id], r.depth)

\* Entry e compares the result returned with a normal death put in for the
\* snake of f, and nothing else changed.
Patched(f, e) ==
    /\ DOMAIN e.result.scores = DOMAIN e.returned.scores \cup {f.snake.id}
    /\ e.result.scores[f.snake.id] =
           ScoreFactors_dead(f.snake.id, "Normal", f.game.multisnake)
    /\ \A id \in DOMAIN e.returned.scores :
           e.result.scores[id] = e.returned.scores[id]
    /\ e.result.depth = e.returned.depth
    /\ e.result.direction = e.returned.direction
    /\ Worth(f, e.result) =
           dead_score("Normal") + e.returned.depth * DEPTH_WEIGHT

C32_PlaceholderForOwnScore ==
    \A k \in 1..Len(stack) : \A n \in 1..Len(stack[k].tried) :
        LET f == stack[k]
            e == f.tried[n]
        IN  /\ f.snake.id \in DOMAIN e.result.scores
            /\ f.snake.id \in DOMAIN f.best_result.scores
            /\ Unscored(f, e) =>
                   /\ Patched(f, e)
                   /\ Worth(f, e.result) <= Worth(f, f.best_result)

\* A call has compared a direction whose result lacked its snake's score
\* with another direction.
C32_Witness ==
    \E k \in 1..Len(stack) : \E n \in 1..Len(stack[k].tried) :
        /\ Unscored(stack[k], stack[k].tried[n])
        /\ Len(stack[k].tried) >= 2
        /\ n >= 2

(***************************************************************************)
(* C33.  For every depth within the search horizon and every factor value  *)
(* feasible on a bounded board (health between 1 and the maximum, length   *)
(* up to the board area, agent count up to the game's), scalar scores are  *)
(* strictly ordered: normal death < self-sacrifice-tie death < every       *)
(* living non-winning score < every winning score.                         *)
(***************************************************************************)
Calculated == call.fn = "calculate" /\ result.outcome = "Ok"

\* The four kinds of score, lowest first.
Rank(factors) ==
    IF factors.dead
    THEN IF factors.death_kind = "Honourable" THEN 1 ELSE 0
    ELSE IF factors.multisnake /\ factors.remaining_opponents = 0 THEN 3
    ELSE 2

Nested == Len(stack) - 1

WithinHorizon ==
    /\ \A k \in 1..Len(stack) : stack[k].depth <= requested
    /\ stack # <<>> => Nested <= requested * Len(root.snakes)

Answered == answer.outcome = "Ok"

C34_SearchTerminates == []WithinHorizon /\ <>Answered

\* The deepest nesting the bound allows, in a game of three snakes.
C34_Witness ==
    /\ stack # <<>>
    /\ requested >= 1
    /\ ~expired
    /\ Len(root.snakes) = 3
    /\ Nested = requested * Len(root.snakes)
    /\ Top.depth = requested

(***************************************************************************)
(* C35.  In every game reached from a constructed game by steps, the list  *)
(* of snakes is in strictly increasing order of id, so that a living self  *)
(* is the first of the list, is the earlier snake of every head-to-head    *)
(* pair it is in, and the next index of the search is 0 exactly when the   *)
(* next snake is self.                                                     *)
(***************************************************************************)
Ordered(snakes) ==
    \A i, j \in 1..Len(snakes) : i < j => snakes[i].id < snakes[j].id

\* (snake_index + 1) % game.snakes.len() (brain.rs:186).
NextIndex(g, snake_index) == (snake_index + 1) % Len(g.snakes)

SelfInPair(i, j) ==
    /\ i < j
    /\ retained[i].body[1] = retained[j].body[1]
    /\ ME \in {retained[i].id, retained[j].id}

C35_AgentsOrdered ==
    /\ Ordered(game.snakes)
    /\ Ordered(Moved)
    /\ Ordered(retained)
    /\ \A i, j \in 1..Len(retained) : SelfInPair(i, j) => retained[i].id = ME
    /\ ME \in Alive =>
          /\ game.snakes[1].id = ME
          /\ \A n \in 0..(Len(game.snakes) - 1) :
                NextIndex(game, n) = ME
                    <=> game.snakes[NextIndex(game, n) + 1].id = ME

\* A step in which self met a snake head to head and lived on, and after
\* which the list has a gap: snake 1 is gone, snake 2 is behind self.
C35_Witness ==
    /\ Stepped
    /\ \E i, j \in 1..Len(retained) : SelfInPair(i, j)
    /\ Len(game.snakes) = 2
    /\ game.snakes[2].id = 2
    /\ ME \in Alive

(***************************************************************************)
(* C36.  After a step the heads of the surviving snakes are on the board,  *)
(* on pairwise distinct cells, on no hazard and on no segment past the     *)
(* head of a surviving snake (C36_AsClaimed).  The cells are not always    *)
(* distinct: two snakes other than self that met head to head with equal   *)
(* lengths both live on, on one cell.  C36_HeadsApart is the amended       *)
(* statement: two survivors share a head cell only if neither is self and  *)
(* they had the same length when they met.                                 *)
(***************************************************************************)
HeadsOnBoard ==
    \A i \in 1..Len(game.snakes) :
        /\ InBounds(HeadOf(game.snakes[i]))
        /\ HeadOf(game.snakes[i]) \notin game.hazards

HeadsOffBodies ==
    \A i, j \in 1..Len(game.snakes) :
        \A k \in 2..Len(game.snakes[j].body) :
            game.snakes[j].body[k] # HeadOf(game.snakes[i])

SharedHead(i, j) ==
    /\ i # j
    /\ HeadOf(game.snakes[i]) = HeadOf(game.snakes[j])

\* The length a survivor had in the head-to-head loop, before it ate.
MetLength(i) == Len(SnakeOf(retained, game.snakes[i].id).body)

C36_AsClaimed ==
    Stepped =>
        /\ HeadsOnBoard
        /\ HeadsOffBodies
        /\ \A i, j \in 1..Len(game.snakes) : ~SharedHead(i, j)

C36_HeadsApart ==
    Stepped =>
        /\ HeadsOnBoard
        /\ HeadsOffBodies
        /\ \A i, j \in 1..Len(game.snakes) :
              SharedHead(i, j) =>
                  /\ game.snakes[i].id # ME
                  /\ game.snakes[j].id # ME
                  /\ MetLength(i) = MetLength(j)

\* Self lives on next to two other snakes that share a head cell, on a board
\* with a hazard.
C36_Witness ==
    /\ Stepped
    /\ ME \in Alive
    /\ game.hazards # {}
    /\ \E i, j \in 1..Len(game.snakes) : SharedHead(i, j)

(***************************************************************************)
(* C37.  After a step the death_kind_map has an entry for exactly the      *)
(* snakes that were in the game before the step and are not among the      *)
(* survivors, and prev_snakes holds exactly the snakes that were in the    *)
(* game before the step; so the scoring of a game the search stops at      *)
(* gives a score to every snake that was in the game before the step and   *)
(* never fails for want of a classification.                               *)
(***************************************************************************)
\* The snakes of the game a call is about to step.
Before == Ids(Top.game.snakes)

\* What bigbrain holds after game.step(&moves) (brain.rs:121-125).
LastStep == step(Top.game, retain_alive(Top.moves, Top.game))

\* The call on top of the stack is entered and steps its game.
StepsGame ==
    /\ Entry
    /\ StepsNext(Top)
    /\ ~expired
    /\ StepOutcome(Top.game, retain_alive(Top.moves, Top.game)) = "Ok"

Classified(stepped) ==
    /\ DOMAIN stepped.death_kind_map = Before \ Ids(stepped.game.snakes)
    /\ Ids(stepped.game.prev_snakes) = Before
    /\ Len(stepped.game.prev_snakes) = Len(Top.game.snakes)

ScoresEveryone ==
    StepsGame =>
        /\ Classified(LastStep)
        /\ should_exit(LastStep.game, Top.depth, requested) =>
              /\ ret'.outcome = "Ok"
              /\ ret'.value.some
              /\ DOMAIN ret'.value.scores = Before

C37_EveryDeathClassified == [][ScoresEveryone]_all_vars

\* The search has stopped at a game and scored a survivor, a snake that ran
\* into something and a snake that lost a head-to-head meeting.
C37_Witness ==
    /\ ret.outcome = "Ok"
    /\ ret.value.some
    /\ ret.value.direction = None
    /\ \E a, b, c \in DOMAIN ret.value.scores :
          /\ ~ret.value.scores[a].dead
          /\ ret.value.scores[b].dead
          /\ ret.value.scores[b].death_kind = "Normal"
          /\ ret.value.scores[c].dead
          /\ ret.value.scores[c].death_kind = "Honourable"

(***************************************************************************)
(* C38.  A search that ran to its end answers with one of self's legal     *)
(* directions (on the board, not back into the neck) whenever self has     *)
(* one.  Only when self has none does the root call end without a result   *)
(* of its own; it then answers Up, with a dead score for every snake of    *)
(* the game and depth 0.                                                   *)
(***************************************************************************)
RootLegal ==
    {d \in Direction :
        /\ ~ReversesIntoNeck(Self, d)
        /\ contains(root.board, Target(Self, d))}

\* The result the root call starts its loop with (brain.rs:166-184).
RootDefault ==
    outer([id \in Ids(root.snakes) |->
              ScoreFactors_dead(id, "Normal", root.multisnake)],
          "Up", 0)

AnswersLegal ==
    Answered =>
        /\ RootLegal # {} => answer.value \in RootLegal
        /\ RootLegal = {} => best = RootDefault

\* The root call returns what it started with only if it tried no direction.
DefaultOnlyIfStuck ==
    (Finish /\ Len(stack) = 1 /\ ~Top.has_best_result) => RootLegal = {}

C38_RootAnswersLegal == []AnswersLegal /\ [][DefaultOnlyIfStuck]_all_vars

C38_Witness ==
    /\ Answered
    /\ RootLegal = {}
    /\ answer.value = "Up"

(***************************************************************************)
(* C39.  A call that tried a direction returns the scores and the depth    *)
(* of the result it got for the direction it chose, to which only a dead   *)
(* score for its own snake was added when that snake had none; a call the  *)
(* search stops at returns the scores of its game with its own depth.  So  *)
(* every result handed up, the root's too, is the scoring of one game the  *)
(* search stopped at, with dead scores for the snakes that scoring does    *)
(* not cover, and its depth is within the horizon.                         *)
(***************************************************************************)
Placeholder(id) == ScoreFactors_dead(id, "Normal", root.multisnake)

\* The record of the direction a call chose, among those it tried.
OfChosen(f, e) ==
    /\ e.direction = f.best_direction
    /\ e.result = f.best_result

\* What the loop compared is what the call it made returned, but for the
\* score of the loop's own snake.
AsReturned(f, e) ==
    /\ e.result.depth = e.returned.depth
    /\ DOMAIN e.result.scores = DOMAIN e.returned.scores \cup {f.snake.id}
    /\ \A id \in DOMAIN e.returned.scores :
          e.result.scores[id] = e.returned.scores[id]
    /\ Unscored(f, e) => e.result.scores[f.snake.id] = Placeholder(f.snake.id)

ReturnsChosen ==
    (Finish /\ Top.has_best_result) =>
        \E k \in DOMAIN Top.tried :
            /\ OfChosen(Top, Top.tried[k])
            /\ AsReturned(Top, Top.tried[k])
            /\ ret'.value.scores = Top.tried[k].result.scores
            /\ ret'.value.depth = Top.tried[k].result.depth
            /\ ret'.value.direction = Top.tried[k].direction

\* A call that stops the search: it ends at its entry with a result.
ReturnsLeaf ==
    (Entry /\ ret'.outcome = "Ok" /\ ret'.value.some
           /\ Len(stack') < Len(stack)) =>
        /\ ret'.value.depth = Top.depth
        /\ \E h \in DOMAIN known_scores' :
              ret'.value.scores = known_scores'[h]

\* r holds the scoring of one game the search stopped at.
FromLeaf(r, h) ==
    /\ DOMAIN known_scores[h] \subseteq DOMAIN r.scores
    /\ \A id \in DOMAIN r.scores :
          r.scores[id] = IF id \in DOMAIN known_scores[h]
                         THEN known_scores[h][id]
                         ELSE Placeholder(id)

HandsUpLeaf ==
    (ret.outcome = "Ok" /\ ret.value.some) =>
        /\ \E h \in DOMAIN known_scores : FromLeaf(ret.value, h)
        /\ ret.value.depth \in 1..requested

C39_ResultIsOneLeaf ==
    []HandsUpLeaf /\ [][ReturnsChosen /\ ReturnsLeaf]_all_vars

\* A call has chosen a direction and returned the scoring of a game reached
\* in the second turn, with a dead score for a snake that scoring does not
\* cover.
C39_Witness ==
    /\ ret.outcome = "Ok"
    /\ ret.value.some
    /\ ret.value.direction # None
    /\ ret.value.depth >= 2
    /\ \E h \in DOMAIN known_scores :
          /\ FromLeaf(ret.value, h)
          /\ DOMAIN known_scores[h] # DOMAIN ret.value.scores

====
